---- MODULE Spec2Model ----
(***************************************************************************)
(* The morphological engine of YAZIS: the rule engine that generates      *)
(* inflected forms (core/rule_engine.py), the two feature-inference        *)
(* strategies and their facade (core/morphological_analyzer.py), and the   *)
(* spelling helpers they share (utils/helpers.py).                         *)
(* Around it, the dictionary with its undoable commands                    *)
(* (models/dictionary.py, core/dictionary_manager.py) and the controller   *)
(* that analyses a document in a worker thread                             *)
(* (gui/controllers/document_controller.py).                               *)
(*                                                                         *)
(* A Python str is a sequence of one-character strings, None is the value  *)
(* NONE, a dict is a function, and a method is an operator that takes      *)
(* `self` and returns [self, raised, value]: the object after the call,    *)
(* whether the call raised, and what it returned.                          *)
(***************************************************************************)
EXTENDS Integers, Sequences, FiniteSets, TLC

VARIABLES
    resource,       \* the three irregular_*.json files under RESOURCES_DIR
    rule_engine,    \* the RuleEngine object: its tables and its _loaded flag
    spacy_model,    \* whether spacy.load(model_name) succeeds on this machine
    spacy_strategy, \* the SpaCyStrategy object: its _nlp
    analyzer,       \* the MorphologicalAnalyzer object: its _strategy
    ret,            \* the last call made by a caller and what it got back
    memo,           \* what a caller keeps: a generate_all_forms result, or the
                    \* strategy it last supplied or assigned to the facade
    threads,        \* the threads inside a RuleEngine call: position and locals
    manager,        \* the DictionaryManager object: its dictionary and stacks
    controller,     \* the DocumentController object: its _thread, _worker
                    \* and progress dialog
    qt              \* the Qt run time: the analysis threads, the calls queued
                    \* for the GUI thread, and the handler the GUI thread is in

vars == <<resource, rule_engine, spacy_model, spacy_strategy, analyzer, ret, memo,
          threads, manager, controller, qt>>

----------------------------------------------------------------------------
(* Python values *)

NONE == "<None>"

EmptyDict == [k \in {} |-> <<>>]

dict_get(d, k, default) == IF k \in DOMAIN d THEN d[k] ELSE default

Letters == <<"a","b","c","d","e","f","g","h","i","j","k","l","m",
             "n","o","p","q","r","s","t","u","v","w","x","y","z">>

Capitals == <<"A","B","C","D","E","F","G","H","I","J","K","L","M",
              "N","O","P","Q","R","S","T","U","V","W","X","Y","Z">>

\* str.lower() on one character
char_lower(ch) ==
    IF \E i \in DOMAIN Capitals : Capitals[i] = ch
    THEN Letters[CHOOSE i \in DOMAIN Capitals : Capitals[i] = ch]
    ELSE ch

\* str.lower()
str_lower(s) == [i \in 1..Len(s) |-> char_lower(s[i])]

\* str.endswith(suffix)
endswith(s, suffix) ==
    /\ Len(suffix) <= Len(s)
    /\ SubSeq(s, Len(s) - Len(suffix) + 1, Len(s)) = suffix

\* str.startswith(prefix)
startswith(s, prefix) ==
    /\ Len(prefix) <= Len(s)
    /\ SubSeq(s, 1, Len(prefix)) = prefix

\* `sub in s` for strings
contains(s, sub) ==
    \E i \in 1..(Len(s) - Len(sub) + 1) : SubSeq(s, i, i + Len(sub) - 1) = sub

\* s[:-n]
drop_last(s, n) == SubSeq(s, 1, Len(s) - n)

\* s[-n], for 1 <= n <= len(s)
char_from_end(s, n) == s[Len(s) - n + 1]

min(a, b) == IF a < b THEN a ELSE b

----------------------------------------------------------------------------
(* utils/constants.py *)

VOWELS == {"a","e","i","o","u"}

CONSONANTS == {"b","c","d","f","g","h","j","k","l","m","n","p","q","r","s",
               "t","v","w","x","y","z"}

(* models/enums.py *)

PartOfSpeech == {"NOUN","VERB","ADJ","ADV","PRON","ADP","CONJ","DET","INTJ",
                 "NUM","PART","OTHER"}

(* models/lexeme.py *)

MorphologicalFeature(tense, number, person, case, degree, aspect, voice) ==
    [tense |-> tense, number |-> number, person |-> person, case |-> case,
     degree |-> degree, aspect |-> aspect, voice |-> voice]

\* MorphologicalFeature(): every field at its default, None
NoFeatures == MorphologicalFeature(NONE, NONE, NONE, NONE, NONE, NONE, NONE)

\* fields(MorphologicalFeature), by name
FeatureFields ==
    {"tense", "number", "person", "case", "degree", "aspect", "voice"}

\* mutant: every field is serialized, the absent ones as None
to_dict_keeping_absent(self) ==
    [name \in FeatureFields |-> self[name]]

\* MorphologicalFeature.to_dict
to_dict(self) ==
    [name \in {f \in FeatureFields : self[f] # NONE} |-> self[name]]

\* MorphologicalFeature.from_dict: cls(**{known keys}), the other fields
\* taking their default None
from_dict(data) ==
    [name \in FeatureFields |->
        IF name \in DOMAIN data THEN data[name] ELSE NONE]

WordForm(form, ending, features) ==
    [form |-> form, ending |-> ending, features |-> features]

----------------------------------------------------------------------------
(* utils/helpers.py *)

is_vowel(ch) == char_lower(ch) \in VOWELS

is_consonant(ch) == char_lower(ch) \in CONSONANTS

double_final_consonant(stem) ==
    IF Len(stem) < 2
    THEN IF Len(stem) > 0 /\ is_consonant(char_from_end(stem, 1))
         THEN Append(stem, char_from_end(stem, 1))
         ELSE stem
    ELSE IF /\ is_consonant(char_from_end(stem, 1))
            /\ is_vowel(char_from_end(stem, 2))
            /\ (Len(stem) < 3 \/ is_consonant(char_from_end(stem, 3)))
            /\ char_from_end(stem, 1) \notin {"w", "x", "y"}
         THEN Append(stem, char_from_end(stem, 1))
         ELSE stem

apply_ies_rule(stem) ==
    IF /\ endswith(stem, <<"y">>)
       /\ Len(stem) >= 2
       /\ is_consonant(char_from_end(stem, 2))
    THEN drop_last(stem, 1) \o <<"i","e","s">>
    ELSE stem \o <<"s">>

\* str.endswith(("s", "x", "z", "ch", "sh"))
ends_in_sibilant(s) ==
    \/ endswith(s, <<"s">>)
    \/ endswith(s, <<"x">>)
    \/ endswith(s, <<"z">>)
    \/ endswith(s, <<"c","h">>)
    \/ endswith(s, <<"s","h">>)

apply_es_rule(stem) ==
    IF ends_in_sibilant(stem) THEN stem \o <<"e","s">> ELSE stem \o <<"s">>

----------------------------------------------------------------------------
(* core/rule_engine.py *)

\* RuleEngine.__init__
RuleEngine_init ==
    [_irregular_verbs |-> EmptyDict,
     _irregular_nouns |-> EmptyDict,
     _irregular_adjectives |-> EmptyDict,
     _loaded |-> FALSE]

\* A resource file: whether it exists, whether json.load accepts it, and the
\* dict json.load returns when it does.
ResourceFile(exists, parses, data) ==
    [exists |-> exists, parses |-> parses, data |-> data]

_load_json(path) ==
    IF ~resource[path].exists
    THEN [raised |-> FALSE, value |-> EmptyDict]
    ELSE IF resource[path].parses
         THEN [raised |-> FALSE, value |-> resource[path].data]
         ELSE [raised |-> TRUE, value |-> EmptyDict]

\* mutant: the tables are loaded on every call, _loaded is never consulted
_ensure_loaded_every_call(self) ==
    LET verbs == _load_json("irregular_verbs.json")
        nouns == _load_json("irregular_nouns.json")
        adjectives == _load_json("irregular_adjectives.json")
    IN  [self |-> [_irregular_verbs |-> verbs.value,
                   _irregular_nouns |-> nouns.value,
                   _irregular_adjectives |-> adjectives.value,
                   _loaded |-> TRUE],
         raised |-> verbs.raised \/ nouns.raised \/ adjectives.raised,
         reads |-> <<"irregular_verbs.json", "irregular_nouns.json",
                     "irregular_adjectives.json">>]

\* `reads` lists the paths handed to _load_json during the call
_ensure_loaded(self) ==
    IF self._loaded
    THEN [self |-> self, raised |-> FALSE, reads |-> <<>>]
    ELSE
      LET verbs == _load_json("irregular_verbs.json")
          self1 == [self EXCEPT !._irregular_verbs = verbs.value]
          nouns == _load_json("irregular_nouns.json")
          self2 == [self1 EXCEPT !._irregular_nouns = nouns.value]
          adjectives == _load_json("irregular_adjectives.json")
          self3 == [self2 EXCEPT !._irregular_adjectives = adjectives.value]
      IN  IF verbs.raised
          THEN [self |-> self, raised |-> TRUE,
                reads |-> <<"irregular_verbs.json">>]
          ELSE IF nouns.raised
          THEN [self |-> self1, raised |-> TRUE,
                reads |-> <<"irregular_verbs.json", "irregular_nouns.json">>]
          ELSE IF adjectives.raised
          THEN [self |-> self2, raised |-> TRUE,
                reads |-> <<"irregular_verbs.json", "irregular_nouns.json",
                            "irregular_adjectives.json">>]
          ELSE [self |-> [self3 EXCEPT !._loaded = TRUE], raised |-> FALSE,
                reads |-> <<"irregular_verbs.json", "irregular_nouns.json",
                            "irregular_adjectives.json">>]

RECURSIVE RuleEngine_compute_ending_loop(_, _, _)
\* the while loop of _compute_ending: i counts the characters that agree
RuleEngine_compute_ending_loop(lemma, form, i) ==
    IF i < min(Len(lemma), Len(form)) /\ lemma[i + 1] = form[i + 1]
    THEN RuleEngine_compute_ending_loop(lemma, form, i + 1)
    ELSE i

\* mutant: the ending is what follows the first len(lemma) characters
RuleEngine_compute_ending_after_lemma(lemma, form) ==
    IF Len(form) > Len(lemma)
    THEN <<"-">> \o SubSeq(form, Len(lemma) + 1, Len(form))
    ELSE <<>>

RuleEngine_compute_ending(lemma, form) ==
    IF form = lemma
    THEN <<>>
    ELSE LET i == RuleEngine_compute_ending_loop(lemma, form, 0)
             suffix == SubSeq(form, i + 1, Len(form))
         IN  IF suffix # <<>> THEN <<"-">> \o suffix ELSE <<>>

\* `a or b` for `irr.get(slot) or b`: the slot when it is there and not empty
slot_or(irr, slot, regular) ==
    IF slot \in DOMAIN irr /\ Len(irr[slot]) > 0 THEN irr[slot] ELSE regular

\* lemma.endswith("y") and len(lemma) >= 2 and is_consonant(lemma[-2])
ends_in_consonant_y(lemma) ==
    /\ endswith(lemma, <<"y">>)
    /\ Len(lemma) >= 2
    /\ is_consonant(char_from_end(lemma, 2))

\* mutant: the final consonant is never doubled
_regular_past_no_doubling(lemma) ==
    IF endswith(lemma, <<"e">>) THEN lemma \o <<"d">>
    ELSE IF ends_in_consonant_y(lemma) THEN drop_last(lemma, 1) \o <<"i","e","d">>
    ELSE lemma \o <<"e","d">>

_regular_past(lemma) ==
    IF endswith(lemma, <<"e">>) THEN lemma \o <<"d">>
    ELSE IF ends_in_consonant_y(lemma) THEN drop_last(lemma, 1) \o <<"i","e","d">>
    ELSE LET stem == double_final_consonant(lemma)
         IN  IF stem # lemma THEN stem \o <<"e","d">> ELSE lemma \o <<"e","d">>

\* mutant: a final "e" is dropped after another "e" too
_regular_present_participle_dropping_ee(lemma) ==
    IF endswith(lemma, <<"i","e">>) THEN drop_last(lemma, 2) \o <<"y","i","n","g">>
    ELSE IF endswith(lemma, <<"e">>)
         THEN drop_last(lemma, 1) \o <<"i","n","g">>
    ELSE LET stem == double_final_consonant(lemma)
         IN  IF stem # lemma THEN stem \o <<"i","n","g">>
             ELSE lemma \o <<"i","n","g">>

_regular_present_participle(lemma) ==
    IF endswith(lemma, <<"i","e">>) THEN drop_last(lemma, 2) \o <<"y","i","n","g">>
    ELSE IF endswith(lemma, <<"e">>) /\ ~endswith(lemma, <<"e","e">>)
         THEN drop_last(lemma, 1) \o <<"i","n","g">>
    ELSE LET stem == double_final_consonant(lemma)
         IN  IF stem # lemma THEN stem \o <<"i","n","g">>
             ELSE lemma \o <<"i","n","g">>

\* mutant: no "es" after a sibilant
_regular_third_person_without_es(lemma) ==
    apply_ies_rule(lemma)

_regular_third_person(lemma) ==
    IF ends_in_sibilant(lemma) THEN apply_es_rule(lemma) ELSE apply_ies_rule(lemma)

\* mutant: the past participle is taken from the past slot
_generate_verb_form_past_slot(self, lemma, feat) ==
    LET irr == dict_get(self._irregular_verbs, str_lower(lemma), EmptyDict)
        tense == feat.tense
    IN  IF tense = "past" THEN slot_or(irr, "past", _regular_past(lemma))
        ELSE IF tense = "past_participle"
             THEN slot_or(irr, "past", _regular_past(lemma))
        ELSE IF tense = "present_participle"
             THEN slot_or(irr, "present_participle", _regular_present_participle(lemma))
        ELSE IF tense = "present" /\ feat.person = "3rd" /\ feat.number = "singular"
             THEN slot_or(irr, "third_person", _regular_third_person(lemma))
        ELSE IF tense = "infinitive" THEN lemma
        ELSE lemma

_generate_verb_form(self, lemma, feat) ==
    LET irr == dict_get(self._irregular_verbs, str_lower(lemma), EmptyDict)
        tense == feat.tense
    IN  IF tense = "past" THEN slot_or(irr, "past", _regular_past(lemma))
        ELSE IF tense = "past_participle"
             THEN slot_or(irr, "past_participle", _regular_past(lemma))
        ELSE IF tense = "present_participle"
             THEN slot_or(irr, "present_participle", _regular_present_participle(lemma))
        ELSE IF tense = "present" /\ feat.person = "3rd" /\ feat.number = "singular"
             THEN slot_or(irr, "third_person", _regular_third_person(lemma))
        ELSE IF tense = "infinitive" THEN lemma
        ELSE lemma

\* mutant: "x" is missing from the sibilant endings
_regular_plural_without_x(lemma) ==
    IF \/ endswith(lemma, <<"s">>) \/ endswith(lemma, <<"z">>)
       \/ endswith(lemma, <<"c","h">>) \/ endswith(lemma, <<"s","h">>)
    THEN lemma \o <<"e","s">>
    ELSE IF ends_in_consonant_y(lemma) THEN drop_last(lemma, 1) \o <<"i","e","s">>
    ELSE IF endswith(lemma, <<"f">>) THEN drop_last(lemma, 1) \o <<"v","e","s">>
    ELSE IF endswith(lemma, <<"f","e">>) THEN drop_last(lemma, 2) \o <<"v","e","s">>
    ELSE lemma \o <<"s">>

_regular_plural(lemma) ==
    IF ends_in_sibilant(lemma) THEN lemma \o <<"e","s">>
    ELSE IF ends_in_consonant_y(lemma) THEN drop_last(lemma, 1) \o <<"i","e","s">>
    ELSE IF endswith(lemma, <<"f">>) THEN drop_last(lemma, 1) \o <<"v","e","s">>
    ELSE IF endswith(lemma, <<"f","e">>) THEN drop_last(lemma, 2) \o <<"v","e","s">>
    ELSE lemma \o <<"s">>

_generate_noun_form(self, lemma, feat) ==
    IF feat.number = "plural"
    THEN LET key == str_lower(lemma)
         IN  IF key \in DOMAIN self._irregular_nouns
                /\ Len(self._irregular_nouns[key]) > 0
             THEN self._irregular_nouns[key]
             ELSE _regular_plural(lemma)
    ELSE IF feat.case = "possessive" THEN lemma \o <<"'","s">>
    ELSE lemma

RECURSIVE _is_short_adjective_loop(_, _, _, _)
\* the for loop of _is_short_adjective over word.lower(), from character i
_is_short_adjective_loop(word, i, prev_vowel, vowel_groups) ==
    IF i > Len(word) THEN vowel_groups
    ELSE IF is_vowel(word[i])
         THEN _is_short_adjective_loop(word, i + 1, TRUE,
                  IF ~prev_vowel THEN vowel_groups + 1 ELSE vowel_groups)
         ELSE _is_short_adjective_loop(word, i + 1, FALSE, vowel_groups)

\* mutant: every vowel is counted, not every vowel group
_is_short_adjective_counting_vowels(word) ==
    Cardinality({i \in 1..Len(word) : is_vowel(word[i])}) <= 2

_is_short_adjective(word) ==
    _is_short_adjective_loop(str_lower(word), 1, FALSE, 0) <= 2

_regular_comparative(lemma) ==
    IF _is_short_adjective(lemma)
    THEN IF endswith(lemma, <<"e">>) THEN lemma \o <<"r">>
         ELSE IF ends_in_consonant_y(lemma) THEN drop_last(lemma, 1) \o <<"i","e","r">>
         ELSE LET stem == double_final_consonant(lemma)
              IN  IF stem # lemma THEN stem \o <<"e","r">> ELSE lemma \o <<"e","r">>
    ELSE <<"m","o","r","e"," ">> \o lemma

_regular_superlative(lemma) ==
    IF _is_short_adjective(lemma)
    THEN IF endswith(lemma, <<"e">>) THEN lemma \o <<"s","t">>
         ELSE IF ends_in_consonant_y(lemma)
              THEN drop_last(lemma, 1) \o <<"i","e","s","t">>
         ELSE LET stem == double_final_consonant(lemma)
              IN  IF stem # lemma THEN stem \o <<"e","s","t">>
                  ELSE lemma \o <<"e","s","t">>
    ELSE <<"m","o","s","t"," ">> \o lemma

_generate_adjective_form(self, lemma, feat) ==
    LET irr == dict_get(self._irregular_adjectives, str_lower(lemma), EmptyDict)
    IN  IF feat.degree = "comparative"
        THEN IF DOMAIN irr # {} /\ "comparative" \in DOMAIN irr
             THEN irr["comparative"]
             ELSE _regular_comparative(lemma)
        ELSE IF feat.degree = "superlative"
        THEN IF DOMAIN irr # {} /\ "superlative" \in DOMAIN irr
             THEN irr["superlative"]
             ELSE _regular_superlative(lemma)
        ELSE lemma

_generate_adverb_form(lemma, feat) ==
    IF feat.degree = "comparative" THEN <<"m","o","r","e"," ">> \o lemma
    ELSE IF feat.degree = "superlative" THEN <<"m","o","s","t"," ">> \o lemma
    ELSE lemma

\* mutant: an adverb takes the adjective rules, irregular table included
generate_form_dispatch_adverb_as_adjective(self, lexeme, pos, features) ==
    IF pos = "VERB" THEN _generate_verb_form(self, lexeme, features)
    ELSE IF pos = "NOUN" THEN _generate_noun_form(self, lexeme, features)
    ELSE IF pos \in {"ADJ", "ADV"}
         THEN _generate_adjective_form(self, lexeme, features)
    ELSE lexeme

\* mutant: the final else applies the noun rules
generate_form_dispatch_noun_fallback(self, lexeme, pos, features) ==
    IF pos = "VERB" THEN _generate_verb_form(self, lexeme, features)
    ELSE IF pos = "ADJ" THEN _generate_adjective_form(self, lexeme, features)
    ELSE IF pos = "ADV" THEN _generate_adverb_form(lexeme, features)
    ELSE _generate_noun_form(self, lexeme, features)

\* the part-of-speech dispatch of generate_form (rule_engine.py 79-88)
generate_form_dispatch(self, lexeme, pos, features) ==
    IF pos = "VERB" THEN _generate_verb_form(self, lexeme, features)
    ELSE IF pos = "NOUN" THEN _generate_noun_form(self, lexeme, features)
    ELSE IF pos = "ADJ" THEN _generate_adjective_form(self, lexeme, features)
    ELSE IF pos = "ADV" THEN _generate_adverb_form(lexeme, features)
    ELSE lexeme

\* mutant: the past slot is taken out of the table with pop instead of get
generate_form_popping(self, lexeme, pos, features) ==
    LET loaded == _ensure_loaded(self)
        form == generate_form_dispatch(loaded.self, lexeme, pos, features)
        ending == RuleEngine_compute_ending(lexeme, form)
        key == str_lower(lexeme)
        verbs == loaded.self._irregular_verbs
        popped ==
            IF pos = "VERB" /\ features.tense = "past" /\ key \in DOMAIN verbs
            THEN [loaded.self EXCEPT !._irregular_verbs[key] =
                     [slot \in DOMAIN verbs[key] \ {"past"} |-> verbs[key][slot]]]
            ELSE loaded.self
    IN  IF loaded.raised
        THEN [self |-> loaded.self, raised |-> TRUE, value |-> <<>>]
        ELSE [self |-> popped, raised |-> FALSE,
              value |-> WordForm(form, ending, features)]

generate_form(self, lexeme, pos, features) ==
    LET loaded == _ensure_loaded(self)
        form == generate_form_dispatch(loaded.self, lexeme, pos, features)
        ending == RuleEngine_compute_ending(lexeme, form)
    IN  IF loaded.raised
        THEN [self |-> loaded.self, raised |-> TRUE, value |-> <<>>]
        ELSE [self |-> loaded.self, raised |-> FALSE,
              value |-> WordForm(form, ending, features)]

RECURSIVE generate_each(_, _, _, _, _)
\* generate_form for each feature specification in turn, on the same engine,
\* each WordForm appended to `forms`
generate_each(self, lemma, pos, specs, forms) ==
    IF specs = <<>>
    THEN [self |-> self, raised |-> FALSE, value |-> forms]
    ELSE LET wf == generate_form(self, lemma, pos, Head(specs))
         IN  IF wf.raised
             THEN [self |-> wf.self, raised |-> TRUE, value |-> <<>>]
             ELSE generate_each(wf.self, lemma, pos, Tail(specs),
                                Append(forms, wf.value))

\* mutant: the present participle is generated before the two past forms
_all_verb_forms_participle_first(self, lemma) ==
    generate_each(self, lemma, "VERB",
        << [NoFeatures EXCEPT !.tense = "infinitive"],
           [NoFeatures EXCEPT !.tense = "present"],
           [NoFeatures EXCEPT !.tense = "present", !.person = "3rd",
                              !.number = "singular"],
           [NoFeatures EXCEPT !.tense = "present_participle",
                              !.aspect = "progressive"],
           [NoFeatures EXCEPT !.tense = "past"],
           [NoFeatures EXCEPT !.tense = "past_participle"] >>,
        <<>>)

\* mutant: the present participle is generated without its aspect
_all_verb_forms_participle_without_aspect(self, lemma) ==
    generate_each(self, lemma, "VERB",
        << [NoFeatures EXCEPT !.tense = "infinitive"],
           [NoFeatures EXCEPT !.tense = "present"],
           [NoFeatures EXCEPT !.tense = "present", !.person = "3rd",
                              !.number = "singular"],
           [NoFeatures EXCEPT !.tense = "past"],
           [NoFeatures EXCEPT !.tense = "past_participle"],
           [NoFeatures EXCEPT !.tense = "present_participle"] >>,
        <<>>)

_all_verb_forms(self, lemma) ==
    generate_each(self, lemma, "VERB",
        << [NoFeatures EXCEPT !.tense = "infinitive"],
           [NoFeatures EXCEPT !.tense = "present"],
           [NoFeatures EXCEPT !.tense = "present", !.person = "3rd",
                              !.number = "singular"],
           [NoFeatures EXCEPT !.tense = "past"],
           [NoFeatures EXCEPT !.tense = "past_participle"],
           [NoFeatures EXCEPT !.tense = "present_participle",
                              !.aspect = "progressive"] >>,
        <<>>)

_all_noun_forms(self, lemma) ==
    generate_each(self, lemma, "NOUN",
        << [NoFeatures EXCEPT !.number = "singular"],
           [NoFeatures EXCEPT !.number = "plural"],
           [NoFeatures EXCEPT !.case = "possessive"] >>,
        <<>>)

_all_adjective_forms(self, lemma) ==
    generate_each(self, lemma, "ADJ",
        << [NoFeatures EXCEPT !.degree = "positive"],
           [NoFeatures EXCEPT !.degree = "comparative"],
           [NoFeatures EXCEPT !.degree = "superlative"] >>,
        <<>>)

_all_adverb_forms(self, lemma) ==
    generate_each(self, lemma, "ADV",
        << [NoFeatures EXCEPT !.degree = "positive"],
           [NoFeatures EXCEPT !.degree = "comparative"],
           [NoFeatures EXCEPT !.degree = "superlative"] >>,
        <<>>)

generate_all_forms(self, lexeme, pos) ==
    LET loaded == _ensure_loaded(self)
    IN  IF loaded.raised
        THEN [self |-> loaded.self, raised |-> TRUE, value |-> <<>>]
        ELSE IF pos = "VERB" THEN _all_verb_forms(loaded.self, lexeme)
        ELSE IF pos = "NOUN" THEN _all_noun_forms(loaded.self, lexeme)
        ELSE IF pos = "ADJ" THEN _all_adjective_forms(loaded.self, lexeme)
        ELSE IF pos = "ADV" THEN _all_adverb_forms(loaded.self, lexeme)
        ELSE [self |-> loaded.self, raised |-> FALSE,
              value |-> << WordForm(lexeme, <<>>, NoFeatures) >>]

\* mutant: the lemma is looked up as given, without .lower()
is_irregular_case_sensitive(self, lexeme, pos) ==
    LET loaded == _ensure_loaded(self)
        s == loaded.self
    IN  [self |-> s, raised |-> loaded.raised,
         value |-> IF pos = "VERB" THEN lexeme \in DOMAIN s._irregular_verbs
                   ELSE IF pos = "NOUN" THEN lexeme \in DOMAIN s._irregular_nouns
                   ELSE IF pos = "ADJ" THEN lexeme \in DOMAIN s._irregular_adjectives
                   ELSE FALSE]

is_irregular(self, lexeme, pos) ==
    LET loaded == _ensure_loaded(self)
        s == loaded.self
    IN  IF loaded.raised
        THEN [self |-> s, raised |-> TRUE, value |-> FALSE]
        ELSE [self |-> s, raised |-> FALSE,
              value |-> IF pos = "VERB"
                        THEN str_lower(lexeme) \in DOMAIN s._irregular_verbs
                        ELSE IF pos = "NOUN"
                        THEN str_lower(lexeme) \in DOMAIN s._irregular_nouns
                        ELSE IF pos = "ADJ"
                        THEN str_lower(lexeme) \in DOMAIN s._irregular_adjectives
                        ELSE FALSE]

----------------------------------------------------------------------------
(* core/morphological_analyzer.py: NLTKStrategy *)

_base_features(pos) ==
    IF pos = "VERB" THEN [NoFeatures EXCEPT !.tense = "present"]
    ELSE IF pos = "NOUN" THEN [NoFeatures EXCEPT !.number = "singular"]
    ELSE IF pos \in {"ADJ", "ADV"} THEN [NoFeatures EXCEPT !.degree = "positive"]
    ELSE NoFeatures

\* mutant: the "ing" branch does not set the aspect
_infer_verb_features_without_aspect(lemma, form) ==
    IF endswith(form, <<"i","n","g">>)
    THEN [NoFeatures EXCEPT !.tense = "present_participle"]
    ELSE IF endswith(form, <<"e","d">>)
    THEN [NoFeatures EXCEPT !.tense = "past"]
    ELSE IF endswith(form, <<"e","n">>) /\ form # lemma
    THEN [NoFeatures EXCEPT !.tense = "past_participle"]
    ELSE IF endswith(form, <<"s">>) /\ form # lemma
    THEN [NoFeatures EXCEPT !.tense = "present", !.person = "3rd",
                            !.number = "singular"]
    ELSE [NoFeatures EXCEPT !.tense = "present"]

_infer_verb_features(lemma, form) ==
    IF endswith(form, <<"i","n","g">>)
    THEN [NoFeatures EXCEPT !.tense = "present_participle", !.aspect = "progressive"]
    ELSE IF endswith(form, <<"e","d">>)
    THEN [NoFeatures EXCEPT !.tense = "past"]
    ELSE IF endswith(form, <<"e","n">>) /\ form # lemma
    THEN [NoFeatures EXCEPT !.tense = "past_participle"]
    ELSE IF endswith(form, <<"s">>) /\ form # lemma
    THEN [NoFeatures EXCEPT !.tense = "present", !.person = "3rd",
                            !.number = "singular"]
    ELSE [NoFeatures EXCEPT !.tense = "present"]

_infer_noun_features(lemma, form) ==
    IF /\ form # lemma
       /\ \/ endswith(form, <<"s">>)
          \/ endswith(form, <<"e","s">>)
          \/ endswith(form, <<"i","e","s">>)
    THEN [NoFeatures EXCEPT !.number = "plural"]
    ELSE IF contains(form, <<"'","s">>) \/ contains(form, <<"s","'">>)
    THEN [NoFeatures EXCEPT !.case = "possessive"]
    ELSE [NoFeatures EXCEPT !.number = "singular"]

_infer_adj_features(lemma, form) ==
    IF endswith(form, <<"e","s","t">>) \/ startswith(form, <<"m","o","s","t"," ">>)
    THEN [NoFeatures EXCEPT !.degree = "superlative"]
    ELSE IF endswith(form, <<"e","r">>) \/ startswith(form, <<"m","o","r","e"," ">>)
    THEN [NoFeatures EXCEPT !.degree = "comparative"]
    ELSE [NoFeatures EXCEPT !.degree = "positive"]

\* mutant: a form equal to its lemma is classified by its suffix
_infer_features_without_shortcut(lemma, form, pos) ==
    IF pos = "VERB" THEN _infer_verb_features(lemma, form)
    ELSE IF pos = "NOUN" THEN _infer_noun_features(lemma, form)
    ELSE IF pos \in {"ADJ", "ADV"} THEN _infer_adj_features(lemma, form)
    ELSE NoFeatures

_infer_features(lemma, form, pos) ==
    IF form = lemma THEN _base_features(pos)
    ELSE IF pos = "VERB" THEN _infer_verb_features(lemma, form)
    ELSE IF pos = "NOUN" THEN _infer_noun_features(lemma, form)
    ELSE IF pos \in {"ADJ", "ADV"} THEN _infer_adj_features(lemma, form)
    ELSE NoFeatures

RECURSIVE NLTKStrategy_compute_ending_loop(_, _, _)
\* the while loop of NLTKStrategy._compute_ending
NLTKStrategy_compute_ending_loop(lemma, form, i) ==
    IF i < min(Len(lemma), Len(form)) /\ lemma[i + 1] = form[i + 1]
    THEN NLTKStrategy_compute_ending_loop(lemma, form, i + 1)
    ELSE i

\* mutant: the empty suffix is not special-cased
NLTKStrategy_compute_ending_dash(lemma, form) ==
    IF form = lemma
    THEN <<>>
    ELSE LET i == NLTKStrategy_compute_ending_loop(lemma, form, 0)
         IN  <<"-">> \o SubSeq(form, i + 1, Len(form))

NLTKStrategy_compute_ending(lemma, form) ==
    IF form = lemma
    THEN <<>>
    ELSE LET i == NLTKStrategy_compute_ending_loop(lemma, form, 0)
             suffix == SubSeq(form, i + 1, Len(form))
         IN  IF suffix # <<>> THEN <<"-">> \o suffix ELSE <<>>

\* the forced base form both strategies insert (lines 68-76 and 192-200)
base_word_form(lemma, pos) ==
    WordForm(lemma, <<>>,
        MorphologicalFeature(
            IF pos = "VERB" THEN "present" ELSE NONE,
            IF pos = "NOUN" THEN "singular" ELSE NONE,
            NONE,
            NONE,
            IF pos \in {"ADJ", "ADV"} THEN "positive" ELSE NONE,
            NONE,
            NONE))

\* mutant: the base form is appended, not inserted at index 0
include_base_form_appending(word_forms, lemma, pos) ==
    IF ~\E i \in DOMAIN word_forms : word_forms[i].form = lemma
    THEN word_forms \o <<base_word_form(lemma, pos)>>
    ELSE word_forms

\* `if not any(wf.form == lemma ...): word_forms.insert(0, base)`
include_base_form(word_forms, lemma, pos) ==
    IF ~\E i \in DOMAIN word_forms : word_forms[i].form = lemma
    THEN <<base_word_form(lemma, pos)>> \o word_forms
    ELSE word_forms

\* one pass of the `for lemma in lemmas` loop of NLTKStrategy.analyze_tokens
NLTKStrategy_analyze_lemma(lemma, pos_map, forms_map) ==
    LET pos == dict_get(pos_map, lemma, "OTHER")
        observed_forms == dict_get(forms_map, lemma, <<lemma>>)
        word_forms ==
            [i \in 1..Len(observed_forms) |->
                WordForm(observed_forms[i],
                         NLTKStrategy_compute_ending(lemma, observed_forms[i]),
                         _infer_features(lemma, observed_forms[i], pos))]
    IN  include_base_form(word_forms, lemma, pos)

NLTKStrategy_analyze_tokens(lemmas, pos_map, forms_map) ==
    [raised |-> FALSE,
     value |-> [lemma \in {lemmas[i] : i \in DOMAIN lemmas} |->
                    NLTKStrategy_analyze_lemma(lemma, pos_map, forms_map)]]

----------------------------------------------------------------------------
(* core/morphological_analyzer.py: SpaCyStrategy *)

\* SpaCyStrategy.__init__
\* mutant: the constructor loads the model and raises when it is unavailable
SpaCyStrategy_construct_eager ==
    IF spacy_model
    THEN [self |-> [_nlp |-> "Language"], raised |-> FALSE]
    ELSE [self |-> [absent |-> TRUE], raised |-> TRUE]

\* the call SpaCyStrategy(model_name): __init__ only stores its arguments
SpaCyStrategy_construct ==
    [self |-> [_nlp |-> NONE], raised |-> FALSE]

SpaCyStrategy_init == [_nlp |-> NONE]

_load_model(self) ==
    IF self._nlp = NONE
    THEN IF spacy_model
         THEN [self |-> [self EXCEPT !._nlp = "Language"], raised |-> FALSE]
         ELSE [self |-> self, raised |-> TRUE]
    ELSE [self |-> self, raised |-> FALSE]

\* mutant: a tag value the map does not know is kept as it is
map_tag_passing_through(tag_map, morph, key) ==
    dict_get(tag_map, dict_get(morph, key, ""), dict_get(morph, key, NONE))

\* `d.get(morph.get(key, ""), None)` for one of the four maps
map_tag(tag_map, morph, key) ==
    dict_get(tag_map, dict_get(morph, key, ""), NONE)

_morph_to_features(morph) ==
    MorphologicalFeature(
        map_tag([Past |-> "past", Pres |-> "present"], morph, "Tense"),
        map_tag([Sing |-> "singular", Plur |-> "plural"], morph, "Number"),
        map_tag(("1" :> "1st") @@ ("2" :> "2nd") @@ ("3" :> "3rd"), morph, "Person"),
        NONE,
        map_tag([Pos |-> "positive", Cmp |-> "comparative", Sup |-> "superlative"],
                morph, "Degree"),
        IF dict_get(morph, "Aspect", NONE) = "Prog" THEN "progressive" ELSE NONE,
        IF dict_get(morph, "Voice", NONE) = "Pass" THEN "passive" ELSE NONE)

RECURSIVE SpaCyStrategy_forms_loop(_, _, _, _)
\* the `for form in observed_forms` loop of SpaCyStrategy.analyze_tokens from
\* position i: nlp is the tagger's answer for each surface form, either an
\* empty doc or the morph dict of its first token
SpaCyStrategy_forms_loop(lemma, observed_forms, nlp, i) ==
    IF i > Len(observed_forms) THEN <<>>
    ELSE LET form == observed_forms[i]
             doc == nlp[form]
             rest == SpaCyStrategy_forms_loop(lemma, observed_forms, nlp, i + 1)
         IN  IF doc.empty
             THEN rest
             ELSE <<WordForm(form,
                             NLTKStrategy_compute_ending(lemma, form),
                             _morph_to_features(doc.morph))>> \o rest

SpaCyStrategy_analyze_lemma(lemma, pos_map, forms_map, nlp) ==
    LET observed_forms == dict_get(forms_map, lemma, <<lemma>>)
        word_forms == SpaCyStrategy_forms_loop(lemma, observed_forms, nlp, 1)
    IN  include_base_form(word_forms, lemma, dict_get(pos_map, lemma, "OTHER"))

SpaCyStrategy_analyze_tokens(self, lemmas, pos_map, forms_map, nlp) ==
    LET loaded == _load_model(self)
    IN  IF loaded.raised
        THEN [self |-> loaded.self, raised |-> TRUE, value |-> EmptyDict]
        ELSE [self |-> loaded.self, raised |-> FALSE,
              value |-> [lemma \in {lemmas[i] : i \in DOMAIN lemmas} |->
                  SpaCyStrategy_analyze_lemma(lemma, pos_map, forms_map, nlp)]]

----------------------------------------------------------------------------
(* core/morphological_analyzer.py: MorphologicalAnalyzer *)

\* MorphologicalAnalyzer.__init__: `strategy or NLTKStrategy()`
MorphologicalAnalyzer_init(strategy) ==
    [_strategy |-> IF strategy = NONE THEN "NLTKStrategy" ELSE strategy]

\* the strategy setter
MorphologicalAnalyzer_set_strategy(self, value) ==
    [self EXCEPT !._strategy = value]

\* mutant: analyze always runs the heuristic strategy
MorphologicalAnalyzer_analyze_heuristic(self, strategy_self, lemmas, pos_map, forms_map, nlp) ==
    [self |-> strategy_self] @@
    NLTKStrategy_analyze_tokens(lemmas, pos_map, forms_map)

\* MorphologicalAnalyzer.analyze: forwards to self._strategy.analyze_tokens;
\* `strategy_self` is the SpaCyStrategy object when that is the one held
MorphologicalAnalyzer_analyze(self, strategy_self, lemmas, pos_map, forms_map, nlp) ==
    IF self._strategy = "SpaCyStrategy"
    THEN SpaCyStrategy_analyze_tokens(strategy_self, lemmas, pos_map, forms_map, nlp)
    ELSE [self |-> strategy_self] @@
         NLTKStrategy_analyze_tokens(lemmas, pos_map, forms_map)

----------------------------------------------------------------------------
(* models/lexeme.py: DictionaryEntry; models/dictionary.py: Dictionary *)

\* DictionaryEntry(lexeme=..., frequency=..., word_forms=...); stem, pos,
\* irregular, notes and definition are carried along and never read by the
\* operations below
DictionaryEntry(lexeme, frequency, word_forms) ==
    [lexeme |-> lexeme, frequency |-> frequency, word_forms |-> word_forms]

\* the None of an `DictionaryEntry | None`
NoEntry == [absent |-> TRUE]

\* DictionaryEntry.add_word_form: an exact duplicate is not added
add_word_form(self, word_form) ==
    IF \E i \in DOMAIN self.word_forms :
           /\ self.word_forms[i].form = word_form.form
           /\ to_dict(self.word_forms[i].features) = to_dict(word_form.features)
    THEN self
    ELSE [self EXCEPT !.word_forms = Append(@, word_form)]

RECURSIVE add_word_forms(_, _)
\* `for wf in entry.word_forms: existing.add_word_form(wf)`
add_word_forms(existing, word_forms) ==
    IF word_forms = <<>>
    THEN existing
    ELSE add_word_forms(add_word_form(existing, Head(word_forms)),
                        Tail(word_forms))

\* Dictionary(): no entries; metadata.total_lexemes is len(_entries)
Dictionary_init == [_entries |-> EmptyDict]

\* the dict without one key
dict_without(d, key) == [k \in DOMAIN d \ {key} |-> d[k]]

\* Dictionary.add_entry: a new key stores the entry, a present key merges
\* the frequency and the word forms into the stored entry
Dictionary_add_entry(self, entry) ==
    LET key == str_lower(entry.lexeme)
    IN  IF key \in DOMAIN self._entries
        THEN LET existing == self._entries[key]
                 summed == [existing EXCEPT !.frequency = @ + entry.frequency]
             IN  [_entries |-> (key :> add_word_forms(summed, entry.word_forms))
                               @@ dict_without(self._entries, key)]
        ELSE [_entries |-> (key :> entry) @@ self._entries]

Dictionary_get_entry(self, lexeme) ==
    dict_get(self._entries, str_lower(lexeme), NoEntry)

\* Dictionary.remove_entry: _entries.pop(key, None)
Dictionary_remove_entry(self, lexeme) ==
    [self |-> [_entries |-> dict_without(self._entries, str_lower(lexeme))],
     value |-> Dictionary_get_entry(self, lexeme)]

\* Dictionary.update_entry: the entry replaces whatever the key held
Dictionary_update_entry(self, entry) ==
    LET key == str_lower(entry.lexeme)
    IN  [_entries |-> (key :> entry) @@ dict_without(self._entries, key)]

Dictionary_has_entry(self, lexeme) == str_lower(lexeme) \in DOMAIN self._entries

----------------------------------------------------------------------------
(* core/dictionary_manager.py *)

AddEntryCommand(entry) == [class |-> "AddEntryCommand", _entry |-> entry]

RemoveEntryCommand(lexeme) ==
    [class |-> "RemoveEntryCommand", _lexeme |-> lexeme, _removed_entry |-> NoEntry]

UpdateEntryCommand(new_entry) ==
    [class |-> "UpdateEntryCommand", _new_entry |-> new_entry, _old_entry |-> NoEntry]

\* cmd.execute() on the dictionary the command holds: the command and the
\* dictionary after it
Command_execute(cmd, dictionary) ==
    CASE cmd.class = "AddEntryCommand" ->
             [cmd |-> cmd, dictionary |-> Dictionary_add_entry(dictionary, cmd._entry)]
      [] cmd.class = "RemoveEntryCommand" ->
             LET removed == Dictionary_remove_entry(dictionary, cmd._lexeme)
             IN  [cmd |-> [cmd EXCEPT !._removed_entry = removed.value],
                  dictionary |-> removed.self]
      [] cmd.class = "UpdateEntryCommand" ->
             [cmd |-> [cmd EXCEPT !._old_entry =
                          Dictionary_get_entry(dictionary, cmd._new_entry.lexeme)],
              dictionary |-> Dictionary_update_entry(dictionary, cmd._new_entry)]

\* cmd.undo(): the dictionary after it
Command_undo(cmd, dictionary) ==
    CASE cmd.class = "AddEntryCommand" ->
             Dictionary_remove_entry(dictionary, cmd._entry.lexeme).self
      [] cmd.class = "RemoveEntryCommand" ->
             IF cmd._removed_entry # NoEntry
             THEN Dictionary_add_entry(dictionary, cmd._removed_entry)
             ELSE dictionary
      [] cmd.class = "UpdateEntryCommand" ->
             IF cmd._old_entry # NoEntry
             THEN Dictionary_update_entry(dictionary, cmd._old_entry)
             ELSE Dictionary_remove_entry(dictionary, cmd._new_entry.lexeme).self

DictionaryManager_init ==
    [_dictionary |-> Dictionary_init, _undo_stack |-> <<>>, _redo_stack |-> <<>>,
     _dirty |-> FALSE]

_execute_command(self, cmd) ==
    LET executed == Command_execute(cmd, self._dictionary)
    IN  [_dictionary |-> executed.dictionary,
         _undo_stack |-> Append(self._undo_stack, executed.cmd),
         _redo_stack |-> <<>>,
         _dirty |-> TRUE]

DictionaryManager_add_entry(self, entry) ==
    [self |-> _execute_command(self, AddEntryCommand(entry)), raised |-> FALSE]

\* raises EntryNotFoundError when the lexeme has no entry
DictionaryManager_remove_entry(self, lexeme) ==
    IF ~Dictionary_has_entry(self._dictionary, lexeme)
    THEN [self |-> self, raised |-> TRUE]
    ELSE [self |-> _execute_command(self, RemoveEntryCommand(lexeme)),
          raised |-> FALSE]

DictionaryManager_update_entry(self, entry) ==
    [self |-> _execute_command(self, UpdateEntryCommand(entry)), raised |-> FALSE]

RECURSIVE bulk_add_loop(_, _)
\* `for entry in entries: self._dictionary.add_entry(entry)`
bulk_add_loop(dictionary, entries) ==
    IF entries = <<>>
    THEN dictionary
    ELSE bulk_add_loop(Dictionary_add_entry(dictionary, Head(entries)), Tail(entries))

DictionaryManager_bulk_add(self, entries) ==
    [_dictionary |-> bulk_add_loop(self._dictionary, entries),
     _undo_stack |-> <<>>,
     _redo_stack |-> <<>>,
     _dirty |-> TRUE]

DictionaryManager_undo(self) ==
    IF self._undo_stack = <<>>
    THEN self
    ELSE LET cmd == self._undo_stack[Len(self._undo_stack)]
         IN  [_dictionary |-> Command_undo(cmd, self._dictionary),
              _undo_stack |-> SubSeq(self._undo_stack, 1, Len(self._undo_stack) - 1),
              _redo_stack |-> Append(self._redo_stack, cmd),
              _dirty |-> TRUE]

----------------------------------------------------------------------------
(* gui/controllers/document_controller.py *)

\* DocumentController.__init__: no thread, no worker; no progress dialog yet
DocumentController_init == [_thread |-> NONE, _worker |-> NONE, _progress |-> NONE]

\* the application before any analysis: no QThread exists, nothing is queued
\* for the GUI thread, and the GUI thread is in its event loop
QApplication_init == [threads |-> EmptyDict, queue |-> <<>>, gui |-> "event_loop"]

\* main(): the dictionary manager and the document controller as constructed
NoDocument ==
    /\ manager = DictionaryManager_init
    /\ controller = DocumentController_init
    /\ qt = QApplication_init

----------------------------------------------------------------------------
(* Inputs *)

MaxLen == 3

MaxEndingLen == 3

MaxForms == 2

Alphabet == {"e", "o", "y", "p", "s"}

EndingAlphabet == {"a", "b"}

RECURSIVE WordsOver(_, _)
\* every string over `alphabet` of length at most n
WordsOver(alphabet, n) ==
    IF n = 0 THEN {<<>>}
    ELSE LET shorter == WordsOver(alphabet, n - 1)
         IN  shorter \cup {Append(w, c) : w \in shorter, c \in alphabet}

RECURSIVE ListsOver(_, _)
\* every list over `items` of length at most n
ListsOver(items, n) ==
    IF n = 0 THEN {<<>>}
    ELSE LET shorter == ListsOver(items, n - 1)
         IN  shorter \cup {Append(w, c) : w \in shorter, c \in items}

w_run == <<"r","u","n">>
w_Run == <<"R","u","n">>
w_ran == <<"r","a","n">>
w_running == <<"r","u","n","n","i","n","g">>
w_go == <<"g","o">>
w_went == <<"w","e","n","t">>
w_gone == <<"g","o","n","e">>
w_goes == <<"g","o","e","s">>
w_hop == <<"h","o","p">>
w_HOP == <<"H","O","P">>
w_box == <<"b","o","x">>
w_bow == <<"b","o","w">>
w_try == <<"t","r","y">>
w_die == <<"d","i","e">>
w_free == <<"f","r","e","e">>
w_watch == <<"w","a","t","c","h">>
w_wish == <<"w","i","s","h">>
w_leaf == <<"l","e","a","f">>
w_knife == <<"k","n","i","f","e">>
w_man == <<"m","a","n">>
w_Man == <<"M","a","n">>
w_men == <<"m","e","n">>
w_happy == <<"h","a","p","p","y">>
w_happier == <<"h","a","p","p","i","e","r">>
w_happiest == <<"h","a","p","p","i","e","s","t">>
w_beautiful == <<"b","e","a","u","t","i","f","u","l">>
w_big == <<"b","i","g">>
w_good == <<"g","o","o","d">>
w_GOOD == <<"G","O","O","D">>
w_better == <<"b","e","t","t","e","r">>
w_best == <<"b","e","s","t">>
w_bad == <<"b","a","d">>
w_worse == <<"w","o","r","s","e">>

ScenarioLemmas ==
    {w_run, w_Run, w_go, w_Man, w_GOOD, w_hop, w_HOP, w_box, w_bow, w_try, w_die, w_free,
     w_watch, w_wish, w_leaf, w_knife, w_man, w_happy, w_beautiful, w_big,
     w_good, w_bad}

Lemmas == WordsOver(Alphabet, MaxLen) \cup ScenarioLemmas

FeatureSpecs ==
    { NoFeatures,
      [NoFeatures EXCEPT !.tense = "infinitive"],
      [NoFeatures EXCEPT !.tense = "present"],
      [NoFeatures EXCEPT !.tense = "present", !.person = "3rd", !.number = "singular"],
      [NoFeatures EXCEPT !.tense = "present", !.person = "3rd", !.number = "plural"],
      [NoFeatures EXCEPT !.tense = "present", !.person = "1st", !.number = "singular"],
      [NoFeatures EXCEPT !.person = "3rd", !.number = "singular"],
      [NoFeatures EXCEPT !.tense = "past"],
      [NoFeatures EXCEPT !.tense = "past_participle"],
      [NoFeatures EXCEPT !.tense = "present_participle", !.aspect = "progressive"],
      [NoFeatures EXCEPT !.number = "singular"],
      [NoFeatures EXCEPT !.number = "plural"],
      [NoFeatures EXCEPT !.case = "possessive"],
      [NoFeatures EXCEPT !.number = "plural", !.case = "possessive"],
      [NoFeatures EXCEPT !.number = "singular", !.case = "possessive"],
      [NoFeatures EXCEPT !.degree = "positive"],
      [NoFeatures EXCEPT !.degree = "comparative"],
      [NoFeatures EXCEPT !.degree = "superlative"] }

\* The irregular tables a resource directory may hold: keys are lowercased
\* lemmas, every slot a non-empty form.
IrregularVerbs ==
    (w_run :> [past |-> w_ran, past_participle |-> w_run,
               present_participle |-> w_running]) @@
    (w_go :> [past |-> w_went, past_participle |-> w_gone, third_person |-> w_goes]) @@
    (<<"p","e">> :> [past |-> <<"p","o">>]) @@
    (<<"o","p">> :> [past_participle |-> <<"o","p","e","n">>]) @@
    (<<"y","e">> :> [present_participle |-> <<"y","e","i","n","g">>])

IrregularNouns ==
    (w_man :> w_men) @@ (<<"o","y">> :> <<"o","y","e","s">>)

IrregularAdjectives ==
    (w_good :> [comparative |-> w_better, superlative |-> w_best]) @@
    (w_bad :> [comparative |-> w_worse]) @@
    (<<"y","o">> :> [superlative |-> <<"y","o","y","o">>]) @@
    (<<"e","p">> :> EmptyDict)

Paths == {"irregular_verbs.json", "irregular_nouns.json", "irregular_adjectives.json"}

ResourceDir(verbs, nouns, adjectives) ==
    ("irregular_verbs.json" :> verbs) @@
    ("irregular_nouns.json" :> nouns) @@
    ("irregular_adjectives.json" :> adjectives)

MissingFile == ResourceFile(FALSE, FALSE, EmptyDict)

\* Resource directories whose files json.load accepts: all three tables, none
\* of the files, and the verb table with an empty adjective table.
LoadableResources ==
    { ResourceDir(ResourceFile(TRUE, TRUE, IrregularVerbs),
                  ResourceFile(TRUE, TRUE, IrregularNouns),
                  ResourceFile(TRUE, TRUE, IrregularAdjectives)),
      ResourceDir(MissingFile, MissingFile, MissingFile),
      ResourceDir(ResourceFile(TRUE, TRUE, IrregularVerbs),
                  MissingFile,
                  ResourceFile(TRUE, TRUE, EmptyDict)) }

----------------------------------------------------------------------------
(* The rule engine and its callers *)

\* no thread is inside a RuleEngine call
NoThreads == <<>>

NoCall == [op |-> "none"]

\* main(): the engine and the facade as constructed with the default settings
\* (nlp.strategy = "nltk"), no call made yet
Constructed ==
    /\ rule_engine = RuleEngine_init
    /\ spacy_model = FALSE
    /\ spacy_strategy = SpaCyStrategy_init
    /\ analyzer = MorphologicalAnalyzer_init(NONE)
    /\ memo = NoCall
    /\ threads = NoThreads
    /\ NoDocument

\* a caller calls rule_engine.generate_form(lexeme, pos, features)
GenerateForm(lexeme, pos, features) ==
    LET r == generate_form(rule_engine, lexeme, pos, features)
    IN  /\ rule_engine' = r.self
        /\ ret' = [op |-> "generate_form", lexeme |-> lexeme, pos |-> pos,
                   features |-> features,
                   fresh |-> ~rule_engine._loaded,
                   reads |-> _ensure_loaded(rule_engine).reads,
                   raised |-> r.raised, value |-> r.value]
        /\ UNCHANGED <<resource, spacy_model, spacy_strategy, analyzer, memo, threads,
                   manager, controller, qt>>

\* a caller calls rule_engine.generate_all_forms(lexeme, pos)
GenerateAllForms(lexeme, pos) ==
    LET r == generate_all_forms(rule_engine, lexeme, pos)
    IN  /\ rule_engine' = r.self
        /\ ret' = [op |-> "generate_all_forms", lexeme |-> lexeme, pos |-> pos,
                   fresh |-> ~rule_engine._loaded,
                   reads |-> _ensure_loaded(rule_engine).reads,
                   raised |-> r.raised, value |-> r.value]
        /\ UNCHANGED <<resource, spacy_model, spacy_strategy, analyzer, memo, threads,
                   manager, controller, qt>>

\* a caller calls rule_engine.is_irregular(lexeme, pos)
IsIrregular(lexeme, pos) ==
    LET r == is_irregular(rule_engine, lexeme, pos)
    IN  /\ rule_engine' = r.self
        /\ ret' = [op |-> "is_irregular", lexeme |-> lexeme, pos |-> pos,
                   fresh |-> ~rule_engine._loaded,
                   reads |-> _ensure_loaded(rule_engine).reads,
                   raised |-> r.raised, value |-> r.value]
        /\ UNCHANGED <<resource, spacy_model, spacy_strategy, analyzer, memo, threads,
                   manager, controller, qt>>

\* the caller keeps the list a generate_all_forms call returned
KeepResult ==
    /\ memo = NoCall
    /\ ret.op = "generate_all_forms"
    /\ memo' = ret
    /\ UNCHANGED <<resource, rule_engine, spacy_model, spacy_strategy, analyzer, ret, threads,
                   manager, controller, qt>>

(* Spec: any sequence of calls on one engine, over a few lemmas *)

CallLemmas == {w_run, w_Run, w_man}

CallPos == {"VERB", "NOUN", "ADJ", "PRON"}

CallFeatures ==
    { NoFeatures,
      [NoFeatures EXCEPT !.tense = "past"],
      [NoFeatures EXCEPT !.number = "plural"] }

Init ==
    /\ resource \in LoadableResources
    /\ Constructed
    /\ ret = NoCall

Next ==
    \/ \E lexeme \in CallLemmas, pos \in CallPos, features \in CallFeatures :
           GenerateForm(lexeme, pos, features)
    \/ \E lexeme \in CallLemmas, pos \in CallPos : GenerateAllForms(lexeme, pos)
    \/ \E lexeme \in CallLemmas, pos \in CallPos : IsIrregular(lexeme, pos)
    \/ KeepResult

Spec == Init /\ [][Next]_vars

(* SpecCalls: one call on a fresh engine, its arguments drawn from every   *)
(* lemma, part of speech and feature specification                         *)

PendingCalls ==
    {[op |-> "call", method |-> "generate_form", lexeme |-> lexeme, pos |-> pos,
      features |-> features] :
        lexeme \in Lemmas, pos \in PartOfSpeech, features \in FeatureSpecs}
    \cup
    {[op |-> "call", method |-> method, lexeme |-> lexeme, pos |-> pos] :
        method \in {"generate_all_forms", "is_irregular"},
        lexeme \in Lemmas, pos \in PartOfSpeech}

InitCalls ==
    /\ resource \in LoadableResources
    /\ Constructed
    /\ ret \in PendingCalls

CallGenerateForm ==
    /\ ret.op = "call" /\ ret.method = "generate_form"
    /\ GenerateForm(ret.lexeme, ret.pos, ret.features)

CallGenerateAllForms ==
    /\ ret.op = "call" /\ ret.method = "generate_all_forms"
    /\ GenerateAllForms(ret.lexeme, ret.pos)

CallIsIrregular ==
    /\ ret.op = "call" /\ ret.method = "is_irregular"
    /\ IsIrregular(ret.lexeme, ret.pos)

NextCalls == CallGenerateForm \/ CallGenerateAllForms \/ CallIsIrregular

SpecCalls == InitCalls /\ [][NextCalls]_vars

(* SpecLoad: one call on a fresh engine, each of the three resource files  *)
(* being missing, present with content json.load rejects, or a table       *)

MalformedFile == ResourceFile(TRUE, FALSE, EmptyDict)

AnyResources ==
    { ResourceDir(verbs, nouns, adjectives) :
        verbs \in {MissingFile, MalformedFile, ResourceFile(TRUE, TRUE, IrregularVerbs)},
        nouns \in {MissingFile, MalformedFile, ResourceFile(TRUE, TRUE, IrregularNouns)},
        adjectives \in {MissingFile, MalformedFile,
                        ResourceFile(TRUE, TRUE, IrregularAdjectives)} }

LoadLemmas == {w_run, w_man, w_good, w_hop}

LoadPos == {"VERB", "NOUN", "ADJ", "PRON"}

LoadFeatures ==
    { [NoFeatures EXCEPT !.tense = "past"],
      [NoFeatures EXCEPT !.number = "plural"],
      [NoFeatures EXCEPT !.degree = "comparative"] }

PendingLoadCalls ==
    {[op |-> "call", method |-> "generate_form", lexeme |-> lexeme, pos |-> pos,
      features |-> features] :
        lexeme \in LoadLemmas, pos \in LoadPos, features \in LoadFeatures}
    \cup
    {[op |-> "call", method |-> method, lexeme |-> lexeme, pos |-> pos] :
        method \in {"generate_all_forms", "is_irregular"},
        lexeme \in LoadLemmas, pos \in LoadPos}

InitLoad ==
    /\ resource \in AnyResources
    /\ Constructed
    /\ ret \in PendingLoadCalls

NextLoad == CallGenerateForm \/ CallGenerateAllForms \/ CallIsIrregular

SpecLoad == InitLoad /\ [][NextLoad]_vars

(* SpecThreads: the analysis worker thread and the GUI thread make their   *)
(* first calls on the shared engine, interleaved statement by statement    *)

Threads == {"worker", "gui"}

\* mutant: _loaded is set before the tables are read and assigned
_ensure_loaded_order_flag_first ==
    << "set_loaded",
       "read_verbs", "assign_verbs",
       "read_nouns", "assign_nouns",
       "read_adjectives", "assign_adjectives" >>

\* the statements of _ensure_loaded after the `if self._loaded: return`
\* check, each `self.x = self._load_json(...)` as the call and the store
_ensure_loaded_order ==
    << "read_verbs", "assign_verbs",
       "read_nouns", "assign_nouns",
       "read_adjectives", "assign_adjectives",
       "set_loaded" >>

\* the position after statement pc of _ensure_loaded; the caller's own code
\* ("compute") follows the last one
statement_after(pc) ==
    LET i == CHOOSE i \in DOMAIN _ensure_loaded_order : _ensure_loaded_order[i] = pc
    IN  IF i = Len(_ensure_loaded_order) THEN "compute"
        ELSE _ensure_loaded_order[i + 1]

PathOf ==
    [read_verbs |-> "irregular_verbs.json",
     read_nouns |-> "irregular_nouns.json",
     read_adjectives |-> "irregular_adjectives.json"]

FieldOf ==
    [assign_verbs |-> "_irregular_verbs",
     assign_nouns |-> "_irregular_nouns",
     assign_adjectives |-> "_irregular_adjectives"]

\* the feature specifications of _all_verb_forms, _all_noun_forms,
\* _all_adjective_forms and _all_adverb_forms, in their order
AllFormsSpecs(pos) ==
    IF pos = "VERB"
    THEN << [NoFeatures EXCEPT !.tense = "infinitive"],
            [NoFeatures EXCEPT !.tense = "present"],
            [NoFeatures EXCEPT !.tense = "present", !.person = "3rd",
                               !.number = "singular"],
            [NoFeatures EXCEPT !.tense = "past"],
            [NoFeatures EXCEPT !.tense = "past_participle"],
            [NoFeatures EXCEPT !.tense = "present_participle",
                               !.aspect = "progressive"] >>
    ELSE IF pos = "NOUN"
    THEN << [NoFeatures EXCEPT !.number = "singular"],
            [NoFeatures EXCEPT !.number = "plural"],
            [NoFeatures EXCEPT !.case = "possessive"] >>
    ELSE IF pos \in {"ADJ", "ADV"}
    THEN << [NoFeatures EXCEPT !.degree = "positive"],
            [NoFeatures EXCEPT !.degree = "comparative"],
            [NoFeatures EXCEPT !.degree = "superlative"] >>
    ELSE <<>>

\* AnalysisWorker.run: is_irregular(lemma, pos), generate_all_forms(lemma, pos)
WorkerCalls ==
    { [method |-> "is_irregular", lexeme |-> w_run, pos |-> "VERB"],
      [method |-> "generate_all_forms", lexeme |-> w_run, pos |-> "VERB"],
      [method |-> "generate_all_forms", lexeme |-> w_man, pos |-> "NOUN"],
      [method |-> "generate_all_forms", lexeme |-> w_run, pos |-> "PRON"] }

\* WordFormDialog._on_generate_one: generate_form(lexeme, pos, features)
GuiCalls ==
    { [method |-> "generate_form", lexeme |-> w_run, pos |-> "VERB",
       features |-> [NoFeatures EXCEPT !.tense = "past"]],
      [method |-> "generate_form", lexeme |-> w_man, pos |-> "NOUN",
       features |-> [NoFeatures EXCEPT !.number = "plural"]],
      [method |-> "generate_form", lexeme |-> w_good, pos |-> "ADJ",
       features |-> [NoFeatures EXCEPT !.degree = "comparative"]] }

\* a thread entering its call: about to test self._loaded
Entering(call) ==
    [call |-> call, pc |-> "check", fresh |-> FALSE, tmp |-> EmptyDict,
     forms |-> <<>>, value |-> NONE]

InitThreads ==
    /\ resource \in LoadableResources
    /\ rule_engine = RuleEngine_init
    /\ spacy_model = FALSE
    /\ spacy_strategy = SpaCyStrategy_init
    /\ analyzer = MorphologicalAnalyzer_init(NONE)
    /\ ret = NoCall
    /\ memo = NoCall
    /\ \E worker \in WorkerCalls, gui \in GuiCalls :
           threads = [t \in Threads |->
                         Entering(IF t = "worker" THEN worker ELSE gui)]
    /\ NoDocument

\* `if self._loaded: return`
CheckLoaded(t) ==
    /\ threads[t].pc = "check"
    /\ threads' = [threads EXCEPT
           ![t].pc = IF rule_engine._loaded THEN "compute"
                     ELSE _ensure_loaded_order[1],
           ![t].fresh = ~rule_engine._loaded]
    /\ UNCHANGED <<resource, rule_engine, spacy_model, spacy_strategy, analyzer,
                   ret, memo,
                   manager, controller, qt>>

\* the call self._load_json(path): its value is held until the store
ReadFile(t) ==
    /\ threads[t].pc \in DOMAIN PathOf
    /\ LET r == _load_json(PathOf[threads[t].pc])
       IN  threads' = [threads EXCEPT
               ![t].pc = IF r.raised THEN "raised"
                         ELSE statement_after(threads[t].pc),
               ![t].tmp = r.value]
    /\ UNCHANGED <<resource, rule_engine, spacy_model, spacy_strategy, analyzer,
                   ret, memo,
                   manager, controller, qt>>

\* the store self._irregular_x = <value of the call>
AssignTable(t) ==
    /\ threads[t].pc \in DOMAIN FieldOf
    /\ rule_engine' = [rule_engine EXCEPT ![FieldOf[threads[t].pc]] = threads[t].tmp]
    /\ threads' = [threads EXCEPT ![t].pc = statement_after(threads[t].pc)]
    /\ UNCHANGED <<resource, spacy_model, spacy_strategy, analyzer, ret, memo,
                   manager, controller, qt>>

\* self._loaded = True
SetLoaded(t) ==
    /\ threads[t].pc = "set_loaded"
    /\ rule_engine' = [rule_engine EXCEPT !._loaded = TRUE]
    /\ threads' = [threads EXCEPT ![t].pc = statement_after(threads[t].pc)]
    /\ UNCHANGED <<resource, spacy_model, spacy_strategy, analyzer, ret, memo,
                   manager, controller, qt>>

\* the rest of generate_form or is_irregular after _ensure_loaded returned:
\* one lookup in the engine's tables
ComputeOne(t) ==
    /\ threads[t].pc = "compute"
    /\ threads[t].call.method \in {"generate_form", "is_irregular"}
    /\ LET call == threads[t].call
           r == IF call.method = "generate_form"
                THEN generate_form(rule_engine, call.lexeme, call.pos, call.features)
                ELSE is_irregular(rule_engine, call.lexeme, call.pos)
       IN  /\ rule_engine' = r.self
           /\ threads' = [threads EXCEPT
                  ![t].pc = IF r.raised THEN "raised" ELSE "done",
                  ![t].value = r.value]
    /\ UNCHANGED <<resource, spacy_model, spacy_strategy, analyzer, ret, memo,
                   manager, controller, qt>>

\* the rest of generate_all_forms: one generate_form call of the paradigm
\* per step, the list returned after the last one
ComputeNext(t) ==
    /\ threads[t].pc = "compute"
    /\ threads[t].call.method = "generate_all_forms"
    /\ LET call == threads[t].call
           specs == AllFormsSpecs(call.pos)
           r == generate_form(rule_engine, call.lexeme, call.pos,
                              specs[Len(threads[t].forms) + 1])
           forms == Append(threads[t].forms, r.value)
       IN  IF specs = <<>>
           THEN /\ threads' = [threads EXCEPT
                       ![t].pc = "done",
                       ![t].value = << WordForm(call.lexeme, <<>>, NoFeatures) >>]
                /\ UNCHANGED rule_engine
           ELSE /\ rule_engine' = r.self
                /\ threads' = [threads EXCEPT
                       ![t].pc = IF r.raised THEN "raised"
                                 ELSE IF Len(forms) = Len(specs) THEN "done"
                                 ELSE "compute",
                       ![t].forms = forms,
                       ![t].value = IF Len(forms) = Len(specs) THEN forms ELSE NONE]
    /\ UNCHANGED <<resource, spacy_model, spacy_strategy, analyzer, ret, memo,
                   manager, controller, qt>>

NextThreads ==
    \E t \in Threads :
        \/ CheckLoaded(t)
        \/ ReadFile(t)
        \/ AssignTable(t)
        \/ SetLoaded(t)
        \/ ComputeOne(t)
        \/ ComputeNext(t)

SpecThreads == InitThreads /\ [][NextThreads]_vars

----------------------------------------------------------------------------
(* The facade, its strategies and their callers *)

\* mutant: main() builds the tagger strategy without the verifying load
main_without_verification(setting) ==
    IF setting = "spacy"
    THEN [spacy_strategy |-> SpaCyStrategy_init,
          analyzer |-> MorphologicalAnalyzer_init("SpaCyStrategy")]
    ELSE [spacy_strategy |-> SpaCyStrategy_init,
          analyzer |-> MorphologicalAnalyzer_init("NLTKStrategy")]

\* main(), lines 84-96: the strategy object and the facade built for the
\* configured nlp.strategy ("nltk" or "spacy")
main(setting) ==
    LET loaded == _load_model(SpaCyStrategy_init)
    IN  IF setting = "spacy" /\ ~loaded.raised
        THEN [spacy_strategy |-> loaded.self,
              analyzer |-> MorphologicalAnalyzer_init("SpaCyStrategy")]
        ELSE [spacy_strategy |-> SpaCyStrategy_init,
              analyzer |-> MorphologicalAnalyzer_init("NLTKStrategy")]

ConstructedFor(setting) ==
    /\ resource \in {ResourceDir(MissingFile, MissingFile, MissingFile)}
    /\ rule_engine = RuleEngine_init
    /\ spacy_model \in BOOLEAN
    /\ spacy_strategy = main(setting).spacy_strategy
    /\ analyzer = main(setting).analyzer
    /\ memo = NoCall
    /\ threads = NoThreads
    /\ NoDocument

\* a caller assigns analyzer.strategy = value and notes the assignment
SetStrategy(value) ==
    /\ analyzer' = MorphologicalAnalyzer_set_strategy(analyzer, value)
    /\ memo' = [op |-> "set_strategy", value |-> value]
    /\ UNCHANGED <<resource, rule_engine, spacy_model, spacy_strategy, ret, threads,
                   manager, controller, qt>>

\* a caller calls analyzer.analyze(lemmas, pos_map, forms_map); nlp is what
\* the tagger answers during the call when the strategy consults it
Analyze(lemmas, pos_map, forms_map, nlp) ==
    LET r == MorphologicalAnalyzer_analyze(analyzer, spacy_strategy,
                                           lemmas, pos_map, forms_map, nlp)
    IN  /\ spacy_strategy' = r.self
        /\ ret' = [op |-> "analyze", strategy |-> analyzer._strategy,
                   lemmas |-> lemmas, pos_map |-> pos_map,
                   forms_map |-> forms_map, nlp |-> nlp,
                   raised |-> r.raised, value |-> r.value]
        /\ UNCHANGED <<resource, rule_engine, spacy_model, analyzer, memo, threads,
                   manager, controller, qt>>

(* Inputs of analyze *)

ObservedRun == {w_run, w_running, w_ran}

TaggedForms == ObservedRun \cup {w_happy, w_happier}

EmptyDoc == [empty |-> TRUE, morph |-> EmptyDict]

Doc(morph) == [empty |-> FALSE, morph |-> morph]

\* what the tagger may answer for a surface form
TaggerAnswers ==
    { EmptyDoc,
      Doc([Tense |-> "Past", Number |-> "Sing", Person |-> "3", VerbForm |-> "Fin"]) }

Taggers == [TaggedForms -> TaggerAnswers]

NoTagger == [form \in TaggedForms |-> EmptyDoc]

\* a dict over the lemmas of `keys`, each mapped to one of its `options`
Dicts(keys, options(_)) ==
    UNION { [present -> UNION {options(k) : k \in present}] : present \in SUBSET keys }

PosMaps ==
    { m \in Dicts({w_run, w_happy}, LAMBDA k : {"VERB", "NOUN", "ADJ", "ADV", "PRON"}) :
        /\ w_run \in DOMAIN m => m[w_run] \in {"VERB", "NOUN", "PRON"}
        /\ w_happy \in DOMAIN m => m[w_happy] \in {"ADJ", "ADV"} }

FormLists(lemma) ==
    IF lemma = w_run
    THEN ListsOver(ObservedRun, MaxForms) \cup {<<w_run, w_running, w_ran>>}
    ELSE {<<w_happier>>, <<w_happy, w_happier>>}

FormsMaps ==
    { m \in Dicts({w_run, w_happy},
                  LAMBDA k : FormLists(w_run) \cup FormLists(w_happy)) :
        \A k \in DOMAIN m : m[k] \in FormLists(k) }

LemmaLists == {<<>>, <<w_run>>, <<w_happy>>, <<w_run, w_happy>>}

(* SpecTokens: one analyze call on the facade as main() built it *)

PendingAnalyze(taggers) ==
    {[op |-> "call", method |-> "analyze", lemmas |-> lemmas, pos_map |-> pos_map,
      forms_map |-> forms_map, nlp |-> nlp] :
        lemmas \in LemmaLists, pos_map \in PosMaps, forms_map \in FormsMaps,
        nlp \in taggers}

InitTokens ==
    /\ \E setting \in {"nltk", "spacy"} : ConstructedFor(setting)
    /\ ret \in PendingAnalyze(IF analyzer._strategy = "SpaCyStrategy"
                              THEN Taggers ELSE {NoTagger})

CallAnalyze ==
    /\ ret.op = "call" /\ ret.method = "analyze"
    /\ Analyze(ret.lemmas, ret.pos_map, ret.forms_map, ret.nlp)

NextTokens == CallAnalyze

SpecTokens == InitTokens /\ [][NextTokens]_vars

(* SpecAnalyzer: any sequence of strategy assignments and analyze calls *)

SwitchLemmaLists == {<<w_run>>, <<w_run, w_happy>>}

SwitchPosMaps == {(w_run :> "VERB") @@ (w_happy :> "ADJ")}

SwitchFormsMaps ==
    { EmptyDict,
      (w_run :> <<w_run, w_running, w_ran>>),
      (w_run :> <<w_ran>>) @@ (w_happy :> <<w_happier>>) }

SwitchTaggers ==
    { NoTagger,
      [form \in TaggedForms |-> Doc([Tense |-> "Past"])],
      [form \in TaggedForms |-> IF form \in {w_run, w_happy} THEN EmptyDoc
                                ELSE Doc([Degree |-> "Cmp"])] }

\* MorphologicalAnalyzer(strategy=supplied), NONE for the default argument;
\* the caller notes what was supplied
InitAnalyzer ==
    /\ resource \in {ResourceDir(MissingFile, MissingFile, MissingFile)}
    /\ rule_engine = RuleEngine_init
    /\ spacy_model \in BOOLEAN
    /\ spacy_strategy = SpaCyStrategy_init
    /\ \E supplied \in {NONE, "NLTKStrategy", "SpaCyStrategy"} :
           /\ analyzer = MorphologicalAnalyzer_init(supplied)
           /\ memo = [op |-> "supplied", value |-> supplied]
    /\ threads = NoThreads
    /\ NoDocument
    /\ ret = NoCall

NextAnalyzer ==
    \/ \E value \in {"NLTKStrategy", "SpaCyStrategy"} : SetStrategy(value)
    \/ \E lemmas \in SwitchLemmaLists, pos_map \in SwitchPosMaps,
          forms_map \in SwitchFormsMaps,
          nlp \in (IF analyzer._strategy = "SpaCyStrategy"
                   THEN SwitchTaggers ELSE {NoTagger}) :
           Analyze(lemmas, pos_map, forms_map, nlp)

SpecAnalyzer == InitAnalyzer /\ [][NextAnalyzer]_vars

(* SpecTagger: a caller constructs the tagger strategy, may verify its     *)
(* model as main() does, assigns strategies to the facade and analyzes     *)

\* no SpaCyStrategy object has been constructed yet
NoStrategy == [absent |-> TRUE]

InitTagger ==
    /\ resource \in {ResourceDir(MissingFile, MissingFile, MissingFile)}
    /\ rule_engine = RuleEngine_init
    /\ spacy_model \in BOOLEAN
    /\ spacy_strategy = NoStrategy
    /\ analyzer = MorphologicalAnalyzer_init(NONE)
    /\ memo = [op |-> "supplied", value |-> NONE]
    /\ threads = NoThreads
    /\ NoDocument
    /\ ret = NoCall

\* a caller evaluates SpaCyStrategy(model_name)
ConstructSpaCyStrategy ==
    /\ spacy_strategy = NoStrategy
    /\ spacy_strategy' = SpaCyStrategy_construct.self
    /\ ret' = [op |-> "SpaCyStrategy", raised |-> SpaCyStrategy_construct.raised]
    /\ UNCHANGED <<resource, rule_engine, spacy_model, analyzer, memo, threads,
                   manager, controller, qt>>

\* a caller calls strategy._load_model() to verify the model, as main() does
VerifyModel ==
    /\ spacy_strategy # NoStrategy
    /\ LET r == _load_model(spacy_strategy)
       IN  /\ spacy_strategy' = r.self
           /\ ret' = [op |-> "_load_model", raised |-> r.raised]
    /\ UNCHANGED <<resource, rule_engine, spacy_model, analyzer, memo, threads,
                   manager, controller, qt>>

NextTagger ==
    \/ ConstructSpaCyStrategy
    \/ VerifyModel
    \/ SetStrategy("NLTKStrategy")
    \/ (spacy_strategy # NoStrategy /\ SetStrategy("SpaCyStrategy"))
    \/ \E lemmas \in SwitchLemmaLists, pos_map \in SwitchPosMaps,
          forms_map \in SwitchFormsMaps,
          nlp \in (IF analyzer._strategy = "SpaCyStrategy"
                   THEN SwitchTaggers ELSE {NoTagger}) :
           Analyze(lemmas, pos_map, forms_map, nlp)

SpecTagger == InitTagger /\ [][NextTagger]_vars

(* SpecForms: one call that returns WordForms, on the engine or on the    *)
(* facade as main() built it                                               *)

FormLemmas == WordsOver(Alphabet, MaxLen - 1) \cup ScenarioLemmas

PendingFormCalls ==
    {[op |-> "call", method |-> "generate_form", lexeme |-> lexeme, pos |-> pos,
      features |-> features] :
        lexeme \in FormLemmas, pos \in PartOfSpeech, features \in FeatureSpecs}
    \cup
    {[op |-> "call", method |-> "generate_all_forms", lexeme |-> lexeme,
      pos |-> pos] :
        lexeme \in FormLemmas, pos \in PartOfSpeech}

InitForms ==
    \/ /\ resource \in LoadableResources
       /\ Constructed
       /\ ret \in PendingFormCalls
    \/ InitTokens

NextForms == CallGenerateForm \/ CallGenerateAllForms \/ CallAnalyze

SpecForms == InitForms /\ [][NextForms]_vars

----------------------------------------------------------------------------
(* SpecEnding: the two copies of _compute_ending on every pair of strings *)

EndingWords == WordsOver(EndingAlphabet, MaxEndingLen)

InitEnding ==
    /\ resource \in {ResourceDir(MissingFile, MissingFile, MissingFile)}
    /\ Constructed
    /\ ret \in {[op |-> "call", method |-> "_compute_ending", lemma |-> lemma,
                 form |-> form] : lemma \in EndingWords, form \in EndingWords}

\* RuleEngine._compute_ending(lemma, form) and
\* NLTKStrategy._compute_ending(lemma, form) on the same arguments
ComputeEnding ==
    /\ ret.op = "call" /\ ret.method = "_compute_ending"
    /\ ret' = [op |-> "_compute_ending", lemma |-> ret.lemma, form |-> ret.form,
               rule_engine |-> RuleEngine_compute_ending(ret.lemma, ret.form),
               nltk_strategy |-> NLTKStrategy_compute_ending(ret.lemma, ret.form)]
    /\ UNCHANGED <<resource, rule_engine, spacy_model, spacy_strategy, analyzer, memo, threads,
                   manager, controller, qt>>

NextEnding == ComputeEnding

SpecEnding == InitEnding /\ [][NextEnding]_vars

----------------------------------------------------------------------------
(* SpecFeature: to_dict and from_dict on every pair of feature sets *)

FeatureSets ==
    { MorphologicalFeature(tense, number, person, case, degree, aspect, voice) :
        tense \in {NONE, "past", "present"},
        number \in {NONE, "singular", "plural"},
        person \in {NONE, "3rd"},
        case \in {NONE, "possessive"},
        degree \in {NONE, "comparative"},
        aspect \in {NONE, "progressive"},
        voice \in {NONE, "passive"} }

\* keys a stored dict may carry that are not feature fields
UnknownKeys == [mood |-> "indicative", form |-> "x"]

InitFeature ==
    /\ resource \in {ResourceDir(MissingFile, MissingFile, MissingFile)}
    /\ Constructed
    /\ ret \in {[op |-> "call", method |-> "to_dict", f |-> f, g |-> g] :
                   f \in FeatureSets, g \in FeatureSets}

\* f.to_dict(), g.to_dict(), and from_dict of f's dict, alone and with
\* unknown keys added
Serialize ==
    /\ ret.op = "call" /\ ret.method = "to_dict"
    /\ ret' = [op |-> "to_dict", f |-> ret.f, g |-> ret.g,
               f_dict |-> to_dict(ret.f),
               g_dict |-> to_dict(ret.g),
               f_back |-> from_dict(to_dict(ret.f)),
               f_back_unknown |-> from_dict(UnknownKeys @@ to_dict(ret.f))]
    /\ UNCHANGED <<resource, rule_engine, spacy_model, spacy_strategy, analyzer,
                   memo, threads,
                   manager, controller, qt>>

NextFeature == Serialize

SpecFeature == InitFeature /\ [][NextFeature]_vars

----------------------------------------------------------------------------
(* SpecStem: double_final_consonant on every stem *)

\* a vowel, a consonant that doubles, and two of the letters w, x, y
StemAlphabet == {"o", "p", "w", "y"}

InitStem ==
    /\ resource \in {ResourceDir(MissingFile, MissingFile, MissingFile)}
    /\ Constructed
    /\ ret \in {[op |-> "call", method |-> "double_final_consonant", stem |-> stem] :
                    stem \in WordsOver(StemAlphabet, MaxLen)}

\* double_final_consonant(stem)
DoubleFinalConsonant ==
    /\ ret.op = "call" /\ ret.method = "double_final_consonant"
    /\ ret' = [op |-> "double_final_consonant", stem |-> ret.stem,
               value |-> double_final_consonant(ret.stem)]
    /\ UNCHANGED <<resource, rule_engine, spacy_model, spacy_strategy, analyzer, memo, threads,
                   manager, controller, qt>>

NextStem == DoubleFinalConsonant

SpecStem == InitStem /\ [][NextStem]_vars

----------------------------------------------------------------------------
(* SpecInfer: NLTKStrategy._infer_features on observed forms built from   *)
(* every prefix, stem and suffix the classifier looks at                   *)

InferPrefixes == {<<>>, <<"m","o","r","e"," ">>, <<"m","o","s","t"," ">>}

InferSuffixes ==
    {<<>>, <<"i","n","g">>, <<"e","d">>, <<"e","n">>, <<"s">>, <<"'","s">>,
     <<"s","'">>, <<"e","s","t">>, <<"e","r">>}

MaxStemLen == 2

InferStems == WordsOver({"e", "s"}, MaxStemLen)

InferForms ==
    {prefix \o stem \o suffix :
        prefix \in InferPrefixes, stem \in InferStems, suffix \in InferSuffixes}

InferPos == {"VERB", "NOUN", "ADJ", "ADV", "PRON"}

\* the lemma is the observed form itself or a stem
InitInfer ==
    /\ resource \in {ResourceDir(MissingFile, MissingFile, MissingFile)}
    /\ Constructed
    /\ ret \in UNION {
           {[op |-> "call", method |-> "_infer_features", lemma |-> lemma,
             form |-> form, pos |-> pos] :
                lemma \in InferStems \cup {form}, pos \in InferPos} :
           form \in InferForms}

\* NLTKStrategy._infer_features(lemma, form, pos)
InferFeatures ==
    /\ ret.op = "call" /\ ret.method = "_infer_features"
    /\ ret' = [op |-> "_infer_features", lemma |-> ret.lemma, form |-> ret.form,
               pos |-> ret.pos,
               value |-> _infer_features(ret.lemma, ret.form, ret.pos)]
    /\ UNCHANGED <<resource, rule_engine, spacy_model, spacy_strategy, analyzer, memo, threads,
                   manager, controller, qt>>

NextInfer == InferFeatures

SpecInfer == InitInfer /\ [][NextInfer]_vars

----------------------------------------------------------------------------
(* SpecMorph: SpaCyStrategy._morph_to_features on every tag dictionary over *)
(* the tags it reads and one it does not, each tag missing, holding a value *)
(* the tagger documents or holding another value                           *)

TagValues ==
    [Tense  : {NONE, "Past", "Pres", "Fut", "past"},
     Number : {NONE, "Sing", "Plur", "Dual"},
     Person : {NONE, "1", "2", "3", "4"},
     Degree : {NONE, "Pos", "Cmp", "Sup", "Abs"},
     Aspect : {NONE, "Prog", "Perf"},
     Voice  : {NONE, "Pass", "Act"},
     Case   : {NONE, "Gen"}]

\* the dict holding the tags that are not missing
MorphDict(tags) ==
    [key \in {k \in DOMAIN tags : tags[k] # NONE} |-> tags[key]]

InitMorph ==
    /\ resource \in {ResourceDir(MissingFile, MissingFile, MissingFile)}
    /\ Constructed
    /\ ret \in {[op |-> "call", method |-> "_morph_to_features",
                 morph |-> MorphDict(tags)] : tags \in TagValues}

\* SpaCyStrategy._morph_to_features(morph)
MorphToFeatures ==
    /\ ret.op = "call" /\ ret.method = "_morph_to_features"
    /\ ret' = [op |-> "_morph_to_features", morph |-> ret.morph,
               value |-> _morph_to_features(ret.morph)]
    /\ UNCHANGED <<resource, rule_engine, spacy_model, spacy_strategy, analyzer, memo, threads,
                   manager, controller, qt>>

NextMorph == MorphToFeatures

SpecMorph == InitMorph /\ [][NextMorph]_vars

----------------------------------------------------------------------------
(* SpecStartup: main() builds the strategy and the facade for the         *)
(* configured nlp.strategy, then the facade analyzes                       *)

\* main() has not built the facade yet
NoAnalyzer == [absent |-> TRUE]

InitStartup ==
    /\ resource \in {ResourceDir(MissingFile, MissingFile, MissingFile)}
    /\ rule_engine = RuleEngine_init
    /\ spacy_model \in BOOLEAN
    /\ spacy_strategy = NoStrategy
    /\ analyzer = NoAnalyzer
    /\ memo \in {[op |-> "settings", strategy |-> strategy] :
                    strategy \in {"nltk", "spacy"}}
    /\ threads = NoThreads
    /\ NoDocument
    /\ ret \in {[op |-> "call", method |-> "analyze", lemmas |-> lemmas,
                 pos_map |-> pos_map, forms_map |-> forms_map, nlp |-> nlp] :
                    lemmas \in SwitchLemmaLists, pos_map \in SwitchPosMaps,
                    forms_map \in SwitchFormsMaps, nlp \in SwitchTaggers}

\* main(), lines 84-96, for settings.nlp.strategy
Startup ==
    /\ memo.op = "settings"
    /\ spacy_strategy' = main(memo.strategy).spacy_strategy
    /\ analyzer' = main(memo.strategy).analyzer
    /\ memo' = [op |-> "main", strategy |-> memo.strategy]
    /\ UNCHANGED <<resource, rule_engine, spacy_model, ret, threads,
                   manager, controller, qt>>

\* the worker calls analyze on the facade main() built
AnalyzeAfterStartup ==
    /\ memo.op = "main"
    /\ ret.op = "call"
    /\ Analyze(ret.lemmas, ret.pos_map, ret.forms_map, ret.nlp)

NextStartup == Startup \/ AnalyzeAfterStartup

SpecStartup == InitStartup /\ [][NextStartup]_vars

----------------------------------------------------------------------------
(* SpecUndo: one add_entry, remove_entry or update_entry on the manager,   *)
(* from every dictionary over a few entries, followed by undo              *)

UndoLexemes == {w_run, w_Run, w_go}

UndoWordForms ==
    { <<>>,
      << WordForm(w_ran, <<"-","a","n">>, [NoFeatures EXCEPT !.tense = "past"]) >>,
      << WordForm(w_run, <<>>, [NoFeatures EXCEPT !.tense = "present"]),
         WordForm(w_ran, <<"-","a","n">>, [NoFeatures EXCEPT !.tense = "past"]) >> }

UndoEntries ==
    {DictionaryEntry(lexeme, frequency, word_forms) :
        lexeme \in UndoLexemes, frequency \in {1, 2}, word_forms \in UndoWordForms}

\* the dictionaries that hold some of the entries, each under its key
UndoDictionaries ==
    {[_entries |-> entries] :
        entries \in {d \in UNION {[present -> UndoEntries] :
                                     present \in SUBSET {w_run, w_go}} :
                        \A key \in DOMAIN d : str_lower(d[key].lexeme) = key}}

\* the manager after load(): the dictionary read, both stacks cleared
InitUndo ==
    /\ resource \in {ResourceDir(MissingFile, MissingFile, MissingFile)}
    /\ rule_engine = RuleEngine_init
    /\ spacy_model = FALSE
    /\ spacy_strategy = SpaCyStrategy_init
    /\ analyzer = MorphologicalAnalyzer_init(NONE)
    /\ memo = NoCall
    /\ threads = NoThreads
    /\ controller = DocumentController_init
    /\ qt = QApplication_init
    /\ \E dictionary \in UndoDictionaries :
           manager = [DictionaryManager_init EXCEPT !._dictionary = dictionary]
    /\ ret \in {[op |-> "call", method |-> method, entry |-> entry] :
                    method \in {"add_entry", "update_entry"}, entry \in UndoEntries}
               \cup {[op |-> "call", method |-> "remove_entry", lexeme |-> lexeme] :
                        lexeme \in UndoLexemes}

\* a caller calls manager.add_entry(entry), having noted the entries
AddEntry ==
    /\ ret.op = "call" /\ ret.method = "add_entry"
    /\ manager' = DictionaryManager_add_entry(manager, ret.entry).self
    /\ memo' = [op |-> "before", _entries |-> manager._dictionary._entries]
    /\ ret' = [op |-> "add_entry", entry |-> ret.entry, raised |-> FALSE]
    /\ UNCHANGED <<resource, rule_engine, spacy_model, spacy_strategy, analyzer,
                   threads, controller, qt>>

\* a caller calls manager.remove_entry(lexeme), having noted the entries
RemoveEntry ==
    /\ ret.op = "call" /\ ret.method = "remove_entry"
    /\ manager' = DictionaryManager_remove_entry(manager, ret.lexeme).self
    /\ memo' = [op |-> "before", _entries |-> manager._dictionary._entries]
    /\ ret' = [op |-> "remove_entry", lexeme |-> ret.lexeme,
               raised |-> DictionaryManager_remove_entry(manager, ret.lexeme).raised]
    /\ UNCHANGED <<resource, rule_engine, spacy_model, spacy_strategy, analyzer,
                   threads, controller, qt>>

\* a caller calls manager.update_entry(entry), having noted the entries
UpdateEntry ==
    /\ ret.op = "call" /\ ret.method = "update_entry"
    /\ manager' = DictionaryManager_update_entry(manager, ret.entry).self
    /\ memo' = [op |-> "before", _entries |-> manager._dictionary._entries]
    /\ ret' = [op |-> "update_entry", entry |-> ret.entry, raised |-> FALSE]
    /\ UNCHANGED <<resource, rule_engine, spacy_model, spacy_strategy, analyzer,
                   threads, controller, qt>>

\* the caller calls manager.undo() right after the operation
Undo ==
    /\ ret.op \in {"add_entry", "remove_entry", "update_entry"}
    /\ manager' = DictionaryManager_undo(manager)
    /\ ret' = [op |-> "undo", after |-> ret]
    /\ UNCHANGED <<resource, rule_engine, spacy_model, spacy_strategy, analyzer,
                   memo, threads, controller, qt>>

NextUndo == AddEntry \/ RemoveEntry \/ UpdateEntry \/ Undo

SpecUndo == InitUndo /\ [][NextUndo]_vars

----------------------------------------------------------------------------
(* SpecDocument: the user opens documents and cancels, the analysis       *)
(* threads run, and the GUI thread delivers the calls their signals queued *)

MaxRuns == 3

\* the QThread (and its worker and progress dialog) of each load_document
RunIds == <<"run1", "run2", "run3", "run4">>

\* QThread.isRunning()
isRunning(id) == qt.threads[id].pc # "finished"

\* what AnalysisWorker.run hands to its finished signal
RunEntries == << DictionaryEntry(w_run, 1, <<>>) >>

InitDocument ==
    /\ resource \in {ResourceDir(MissingFile, MissingFile, MissingFile)}
    /\ rule_engine = RuleEngine_init
    /\ spacy_model = FALSE
    /\ spacy_strategy = SpaCyStrategy_init
    /\ analyzer = MorphologicalAnalyzer_init(NONE)
    /\ ret = NoCall
    /\ memo = [op |-> "cancelled", runs |-> {}]
    /\ threads = NoThreads
    /\ NoDocument

\* MainWindow._on_open_document: the file dialog has returned a path and the
\* handler is about to call load_document
OpenDocument ==
    /\ qt.gui = "event_loop"
    /\ Cardinality(DOMAIN qt.threads) < MaxRuns
    /\ qt' = [qt EXCEPT !.gui = "open_document"]
    /\ UNCHANGED <<resource, rule_engine, spacy_model, spacy_strategy, analyzer,
                   ret, memo, threads, manager, controller>>

\* DocumentController.load_document(path): the Busy warning when the thread
\* it holds is running, else a new progress dialog, QThread and worker,
\* connected and started
LoadDocument ==
    /\ qt.gui = "open_document"
    /\ IF controller._thread # NONE /\ isRunning(controller._thread)
       THEN /\ qt' = [qt EXCEPT !.gui = "event_loop"]
            /\ ret' = [op |-> "load_document", held |-> controller._thread,
                       started |-> NONE]
            /\ UNCHANGED controller
       ELSE LET id == RunIds[Cardinality(DOMAIN qt.threads) + 1]
            IN  /\ controller' = [_thread |-> id, _worker |-> id, _progress |-> id]
                /\ qt' = [qt EXCEPT
                       !.gui = "event_loop",
                       !.threads = (id :> [pc |-> "run", quit |-> FALSE]) @@ @]
                /\ ret' = [op |-> "load_document", held |-> controller._thread,
                           started |-> id]
    /\ UNCHANGED <<resource, rule_engine, spacy_model, spacy_strategy, analyzer,
                   memo, threads, manager>>

\* AnalysisWorker.run in its thread: it emits finished, or error, and returns
\* to the thread's event loop; the connected _on_finished (or _on_error) and
\* QThread.quit are queued for the GUI thread
WorkerRun(id, signal) ==
    /\ qt.gui # "aborted"
    /\ qt.threads[id].pc = "run"
    /\ qt' = [qt EXCEPT
           !.threads[id].pc = "exec",
           !.queue = @ \o << [slot |-> signal, run |-> id],
                             [slot |-> "quit", run |-> id] >>]
    /\ UNCHANGED <<resource, rule_engine, spacy_model, spacy_strategy, analyzer,
                   ret, memo, threads, manager, controller>>

\* the thread's event loop, told to quit, exits: the thread emits finished,
\* which queues _cleanup for the GUI thread, and stops running
ThreadFinishes(id) ==
    /\ qt.gui # "aborted"
    /\ qt.threads[id].pc = "exec"
    /\ qt.threads[id].quit
    /\ qt' = [qt EXCEPT
           !.threads[id].pc = "finished",
           !.queue = Append(@, [slot |-> "_cleanup", run |-> id])]
    /\ UNCHANGED <<resource, rule_engine, spacy_model, spacy_strategy, analyzer,
                   ret, memo, threads, manager, controller>>

\* the GUI thread delivers worker.finished: _on_finished closes the progress
\* dialog and bulk-adds the entries
OnFinished ==
    /\ qt.gui = "event_loop"
    /\ qt.queue # <<>>
    /\ Head(qt.queue).slot = "_on_finished"
    /\ qt' = [qt EXCEPT !.queue = Tail(@)]
    /\ controller' = [controller EXCEPT !._progress = NONE]
    /\ manager' = DictionaryManager_bulk_add(manager, RunEntries)
    /\ ret' = [op |-> "bulk_add", run |-> Head(qt.queue).run,
               cancelled |-> Head(qt.queue).run \in memo.runs]
    /\ UNCHANGED <<resource, rule_engine, spacy_model, spacy_strategy, analyzer,
                   memo, threads>>

\* the GUI thread delivers worker.error: _on_error closes the progress dialog
OnError ==
    /\ qt.gui = "event_loop"
    /\ qt.queue # <<>>
    /\ Head(qt.queue).slot = "_on_error"
    /\ qt' = [qt EXCEPT !.queue = Tail(@)]
    /\ controller' = [controller EXCEPT !._progress = NONE]
    /\ ret' = [op |-> "_on_error", run |-> Head(qt.queue).run]
    /\ UNCHANGED <<resource, rule_engine, spacy_model, spacy_strategy, analyzer,
                   memo, threads, manager>>

\* the GUI thread delivers the queued QThread.quit of a run
Quit ==
    /\ qt.gui = "event_loop"
    /\ qt.queue # <<>>
    /\ Head(qt.queue).slot = "quit"
    /\ qt' = [qt EXCEPT !.queue = Tail(@),
                        !.threads[Head(qt.queue).run].quit = TRUE]
    /\ UNCHANGED <<resource, rule_engine, spacy_model, spacy_strategy, analyzer,
                   ret, memo, threads, manager, controller>>

\* the GUI thread delivers thread.finished: _cleanup drops the worker and
\* the thread the controller holds. When that thread is running, the last
\* reference to a running QThread is dropped: the process aborts or goes on.
Cleanup ==
    /\ qt.gui = "event_loop"
    /\ qt.queue # <<>>
    /\ Head(qt.queue).slot = "_cleanup"
    /\ controller' = [controller EXCEPT !._thread = NONE, !._worker = NONE]
    /\ \/ qt' = [qt EXCEPT !.queue = Tail(@)]
       \/ /\ controller._thread # NONE
          /\ isRunning(controller._thread)
          /\ qt' = [qt EXCEPT !.queue = Tail(@), !.gui = "aborted"]
    /\ ret' = [op |-> "_cleanup", run |-> Head(qt.queue).run,
               dropped |-> controller._thread]
    /\ UNCHANGED <<resource, rule_engine, spacy_model, spacy_strategy, analyzer,
                   memo, threads, manager>>

\* the user presses Cancel on the open progress dialog, which closes:
\* _on_cancel up to thread.wait(3000); the caller notes the cancelled run
Cancel ==
    /\ qt.gui = "event_loop"
    /\ controller._progress # NONE
    /\ controller' = [controller EXCEPT !._progress = NONE]
    /\ IF controller._thread # NONE /\ isRunning(controller._thread)
       THEN /\ qt' = [qt EXCEPT !.gui = "cancel_wait",
                                !.threads[controller._thread].quit = TRUE]
            /\ memo' = [memo EXCEPT !.runs = @ \cup {controller._thread}]
       ELSE UNCHANGED <<qt, memo>>
    /\ ret' = [op |-> "_on_cancel", run |-> controller._progress]
    /\ UNCHANGED <<resource, rule_engine, spacy_model, spacy_strategy, analyzer,
                   threads, manager>>

\* thread.wait(3000) returns, the thread finished or the three seconds over,
\* and _on_cancel returns to the event loop
CancelReturns ==
    /\ qt.gui = "cancel_wait"
    /\ qt' = [qt EXCEPT !.gui = "event_loop"]
    /\ UNCHANGED <<resource, rule_engine, spacy_model, spacy_strategy, analyzer,
                   ret, memo, threads, manager, controller>>

NextDocument ==
    \/ OpenDocument
    \/ LoadDocument
    \/ \E id \in DOMAIN qt.threads : WorkerRun(id, "_on_finished")
    \/ \E id \in DOMAIN qt.threads : WorkerRun(id, "_on_error")
    \/ \E id \in DOMAIN qt.threads : ThreadFinishes(id)
    \/ OnFinished
    \/ OnError
    \/ Quit
    \/ Cleanup
    \/ Cancel
    \/ CancelReturns

SpecDocument == InitDocument /\ [][NextDocument]_vars

----------------------------------------------------------------------------
(* Properties *)

\* the length of the longest common prefix of two strings
CommonPrefixLen(a, b) ==
    CHOOSE n \in 0..min(Len(a), Len(b)) :
        /\ SubSeq(a, 1, n) = SubSeq(b, 1, n)
        /\ \A m \in (n + 1)..min(Len(a), Len(b)) : SubSeq(a, 1, m) # SubSeq(b, 1, m)

\* `form` with its longest common prefix with `lemma` removed
RemainderOf(lemma, form) ==
    SubSeq(form, CommonPrefixLen(lemma, form) + 1, Len(form))

\* the table json.load yields for a resource file, {} when the file is missing
TableIn(path) ==
    IF resource[path].exists THEN resource[path].data ELSE EmptyDict

C2_OtherPosIdentity ==
    (ret.op = "generate_form" /\ ret.pos \notin {"VERB", "NOUN", "ADJ", "ADV"}) =>
        /\ ~ret.raised
        /\ ret.value.form = ret.lexeme
        /\ ret.value.ending = <<>>
        /\ ret.value.features = ret.features

C2_Witness ==
    /\ ret.op = "generate_form"
    /\ ret.pos = "PRON"
    /\ ret.lexeme = w_man
    /\ ret.features.number = "plural"
    /\ w_man \in DOMAIN rule_engine._irregular_nouns
    /\ ret.value.form = w_man

\* C3: is_irregular(lemma, pos) is true exactly when the lowercased lemma is a
\* key of the table of pos's category (VERB, NOUN, ADJECTIVE), and false for
\* every other part of speech, ADVERB included.
C3_IsIrregular ==
    ret.op = "is_irregular" =>
        /\ ~ret.raised
        /\ ret.value =
             (\/ ret.pos = "VERB"
                    /\ str_lower(ret.lexeme) \in DOMAIN TableIn("irregular_verbs.json")
              \/ ret.pos = "NOUN"
                    /\ str_lower(ret.lexeme) \in DOMAIN TableIn("irregular_nouns.json")
              \/ ret.pos = "ADJ"
                    /\ str_lower(ret.lexeme)
                           \in DOMAIN TableIn("irregular_adjectives.json"))

C3_Witness ==
    /\ ret.op = "is_irregular"
    /\ ret.lexeme = w_Run
    /\ ret.pos = "VERB"
    /\ ret.value = TRUE

\* C4: two generate_all_forms calls with the same (lemma, pos) on one engine
\* return the same ordered list, whether the call was the one that loaded the
\* tables or a later one, whatever calls were made in between.
C4_Deterministic ==
    (/\ memo.op = "generate_all_forms"
     /\ ret.op = "generate_all_forms"
     /\ ret.lexeme = memo.lexeme
     /\ ret.pos = memo.pos) =>
        /\ ret.raised = memo.raised
        /\ ret.value = memo.value

C4_Witness ==
    /\ memo.op = "generate_all_forms" /\ memo.fresh
    /\ ret.op = "generate_all_forms" /\ ~ret.fresh
    /\ ret.lexeme = w_Run /\ memo.lexeme = w_Run
    /\ ret.pos = "VERB" /\ memo.pos = "VERB"
    /\ Len(ret.value) = 6
    /\ ret.value[4].form = w_ran

\* the last character of a non-empty string
LastOf(s) == s[Len(s)]

\* the string ends in a consonant followed by "y"
ConsonantY(s) ==
    Len(s) >= 2 /\ LastOf(s) = "y" /\ char_lower(s[Len(s) - 1]) \in CONSONANTS

\* the string ends in s, x, z, ch or sh
Sibilant(s) ==
    \/ Len(s) >= 1 /\ LastOf(s) \in {"s", "x", "z"}
    \/ Len(s) >= 2 /\ LastOf(s) = "h" /\ s[Len(s) - 1] \in {"c", "s"}

\* the slot of the lowercased lemma in a verb or adjective table, <<>> if none
SlotOf(path, lemma, slot) ==
    LET table == TableIn(path)
        key == str_lower(lemma)
    IN  IF key \in DOMAIN table /\ slot \in DOMAIN table[key]
        THEN table[key][slot] ELSE <<>>

\* the regular -ed form as C5 words it
RegularEd(lemma) ==
    IF lemma # <<>> /\ LastOf(lemma) = "e" THEN lemma \o <<"d">>
    ELSE IF ConsonantY(lemma) THEN SubSeq(lemma, 1, Len(lemma) - 1) \o <<"i","e","d">>
    ELSE IF double_final_consonant(lemma) # lemma
         THEN double_final_consonant(lemma) \o <<"e","d">>
    ELSE lemma \o <<"e","d">>

\* C5: for VERB with tense=past, generate_form returns the past slot of the
\* lowercased lemma when the verb table has one, and otherwise the regular
\* -ed form: +d after e, y -> ied after a consonant, the doubled consonant
\* + ed when double_final_consonant changes the lemma, else + ed.
C5_VerbPast ==
    (ret.op = "generate_form" /\ ret.pos = "VERB" /\ ret.features.tense = "past") =>
        /\ ~ret.raised
        /\ ret.value.form =
               IF SlotOf("irregular_verbs.json", ret.lexeme, "past") # <<>>
               THEN SlotOf("irregular_verbs.json", ret.lexeme, "past")
               ELSE RegularEd(ret.lexeme)
        /\ (ret.lexeme = w_run /\ w_run \in DOMAIN TableIn("irregular_verbs.json"))
               => ret.value.form = w_ran
        /\ ret.lexeme = w_hop => ret.value.form = <<"h","o","p","p","e","d">>

C5_Witness ==
    /\ ret.op = "generate_form"
    /\ ret.pos = "VERB"
    /\ ret.features.tense = "past"
    /\ ret.lexeme = w_hop
    /\ ret.value.form = <<"h","o","p","p","e","d">>

\* the number of maximal runs of a/e/i/o/u in a lowercased string
VowelGroups(s) ==
    Cardinality({i \in 1..Len(s) :
        /\ s[i] \in {"a","e","i","o","u"}
        /\ (i = 1 \/ s[i - 1] \notin {"a","e","i","o","u"})})

\* the synthetic comparison as C6 words it, for the suffix pair (r, er, ier)
\* or (st, est, iest)
Synthetic(lemma, after_e, plain, after_y) ==
    IF lemma # <<>> /\ LastOf(lemma) = "e" THEN lemma \o after_e
    ELSE IF ConsonantY(lemma) THEN SubSeq(lemma, 1, Len(lemma) - 1) \o after_y
    ELSE IF double_final_consonant(lemma) # lemma
         THEN double_final_consonant(lemma) \o plain
    ELSE lemma \o plain

ExpectedAdjective(lemma, degree) ==
    LET key == str_lower(lemma)
        table == TableIn("irregular_adjectives.json")
    IN  IF degree \notin {"comparative", "superlative"} THEN lemma
        ELSE IF key \in DOMAIN table /\ degree \in DOMAIN table[key]
             THEN table[key][degree]
        ELSE IF VowelGroups(key) > 2
             THEN (IF degree = "comparative" THEN <<"m","o","r","e"," ">>
                   ELSE <<"m","o","s","t"," ">>) \o lemma
        ELSE IF degree = "comparative"
             THEN Synthetic(lemma, <<"r">>, <<"e","r">>, <<"i","e","r">>)
             ELSE Synthetic(lemma, <<"s","t">>, <<"e","s","t">>, <<"i","e","s","t">>)

\* C6: for ADJECTIVE, comparative and superlative take the irregular slot when
\* the table has it, else "more"/"most" + lemma exactly when the lowercased
\* lemma has more than 2 vowel groups, else the synthetic form; positive or
\* unspecified degree gives the lemma.
C6_Adjective ==
    (ret.op = "generate_form" /\ ret.pos = "ADJ") =>
        /\ ~ret.raised
        /\ ret.value.form = ExpectedAdjective(ret.lexeme, ret.features.degree)
        /\ (ret.lexeme = w_happy /\ ret.features.degree = "comparative")
               => ret.value.form = w_happier
        /\ (ret.lexeme = w_beautiful /\ ret.features.degree = "superlative")
               => ret.value.form = <<"m","o","s","t"," ">> \o w_beautiful

C6_Witness ==
    /\ ret.op = "generate_form"
    /\ ret.pos = "ADJ"
    /\ ret.lexeme = w_beautiful
    /\ ret.features.degree = "superlative"
    /\ ret.value.form = <<"m","o","s","t"," ","b","e","a","u","t","i","f","u","l">>

ExpectedNoun(lemma, features) ==
    LET key == str_lower(lemma)
        table == TableIn("irregular_nouns.json")
    IN  IF features.number = "plural"
        THEN IF key \in DOMAIN table THEN table[key]
             ELSE IF Sibilant(lemma) THEN lemma \o <<"e","s">>
             ELSE IF ConsonantY(lemma)
                  THEN SubSeq(lemma, 1, Len(lemma) - 1) \o <<"i","e","s">>
             ELSE IF lemma # <<>> /\ LastOf(lemma) = "f"
                  THEN SubSeq(lemma, 1, Len(lemma) - 1) \o <<"v","e","s">>
             ELSE IF Len(lemma) >= 2 /\ LastOf(lemma) = "e" /\ lemma[Len(lemma) - 1] = "f"
                  THEN SubSeq(lemma, 1, Len(lemma) - 2) \o <<"v","e","s">>
             ELSE lemma \o <<"s">>
        ELSE IF features.case = "possessive" THEN lemma \o <<"'","s">>
        ELSE lemma

\* C7: for NOUN, number=plural gives the irregular plural of the lowercased
\* lemma when the noun table has one, else +es after s/x/z/ch/sh, y -> ies
\* after a consonant, f/fe -> ves, else +s; without number=plural,
\* case=possessive gives lemma + "'s" and anything else the lemma.
C7_Noun ==
    (ret.op = "generate_form" /\ ret.pos = "NOUN") =>
        /\ ~ret.raised
        /\ ret.value.form = ExpectedNoun(ret.lexeme, ret.features)
        /\ (ret.lexeme = w_box /\ ret.features.number = "plural")
               => ret.value.form = <<"b","o","x","e","s">>

C7_Witness ==
    /\ ret.op = "generate_form"
    /\ ret.pos = "NOUN"
    /\ ret.lexeme = w_box
    /\ ret.features.number = "plural"
    /\ ret.value.form = <<"b","o","x","e","s">>

\* the heuristic run scenario: VERB lemma "run" observed as run, running, ran
RunScenario ==
    /\ ret.op = "analyze"
    /\ ret.strategy = "NLTKStrategy"
    /\ \E i \in DOMAIN ret.lemmas : ret.lemmas[i] = w_run
    /\ w_run \in DOMAIN ret.pos_map
    /\ ret.pos_map[w_run] = "VERB"
    /\ w_run \in DOMAIN ret.forms_map
    /\ ret.forms_map[w_run] = <<w_run, w_running, w_ran>>

\* the list returned for "run" has the entry (form, ending, features)
RunEntry(form, ending, features) ==
    \E i \in DOMAIN ret.value[w_run] :
        ret.value[w_run][i] = WordForm(form, ending, features)

\* C8 as stated: the scenario yields "running" as present participle with
\* progressive aspect, "ran" with {tense: past} and the base "run" with
\* {tense: present}, with endings "-ning", "-an" and "".
C8_RunScenarioPast ==
    RunScenario =>
        /\ ~ret.raised
        /\ RunEntry(w_running, <<"-","n","i","n","g">>,
                    [NoFeatures EXCEPT !.tense = "present_participle",
                                       !.aspect = "progressive"])
        /\ RunEntry(w_ran, <<"-","a","n">>, [NoFeatures EXCEPT !.tense = "past"])
        /\ RunEntry(w_run, <<>>, [NoFeatures EXCEPT !.tense = "present"])

\* C8 amended: the same scenario, where "ran" matches none of the verb
\* suffixes and so gets {tense: present}; the other entries and the three
\* endings are as stated.
C8_RunScenarioPresent ==
    RunScenario =>
        /\ ~ret.raised
        /\ RunEntry(w_running, <<"-","n","i","n","g">>,
                    [NoFeatures EXCEPT !.tense = "present_participle",
                                       !.aspect = "progressive"])
        /\ RunEntry(w_ran, <<"-","a","n">>, [NoFeatures EXCEPT !.tense = "present"])
        /\ RunEntry(w_run, <<>>, [NoFeatures EXCEPT !.tense = "present"])
        /\ \A i \in DOMAIN ret.value[w_run] :
               ret.value[w_run][i].ending =
                   (IF RemainderOf(w_run, ret.value[w_run][i].form) = <<>> THEN <<>>
                    ELSE <<"-">> \o RemainderOf(w_run, ret.value[w_run][i].form))

C8_Witness ==
    /\ RunScenario
    /\ ret.lemmas = <<w_run>>
    /\ Len(ret.value[w_run]) = 3
    /\ ret.value[w_run][3].form = w_ran
    /\ ret.value[w_run][3].features.tense = "present"
    /\ ret.value[w_run][2].features.aspect = "progressive"

\* the observed forms of a lemma the active strategy turns into WordForms:
\* all of them for the heuristic, those the tagger answers for otherwise
Produced(lemma) ==
    LET observed == IF lemma \in DOMAIN ret.forms_map
                    THEN ret.forms_map[lemma] ELSE <<lemma>>
        answered(form) == ~ret.nlp[form].empty
    IN  IF ret.strategy = "SpaCyStrategy" THEN SelectSeq(observed, answered)
        ELSE observed

\* the POS default features as C9 words them
DefaultFeatures(pos) ==
    IF pos = "VERB" THEN [NoFeatures EXCEPT !.tense = "present"]
    ELSE IF pos = "NOUN" THEN [NoFeatures EXCEPT !.number = "singular"]
    ELSE IF pos \in {"ADJ", "ADV"} THEN [NoFeatures EXCEPT !.degree = "positive"]
    ELSE NoFeatures

\* C9: under either strategy the list returned for each input lemma holds a
\* WordForm whose form is the lemma; when no produced form equals the lemma
\* the base WordForm (ending "", POS default features) is at index 0 and the
\* WordForms of the produced forms follow in input order.
C9_BaseForm ==
    (ret.op = "analyze" /\ ~ret.raised) =>
        \A k \in DOMAIN ret.lemmas :
            LET lemma == ret.lemmas[k]
                wfs == ret.value[lemma]
                produced == Produced(lemma)
                pos == IF lemma \in DOMAIN ret.pos_map
                       THEN ret.pos_map[lemma] ELSE "OTHER"
            IN  /\ \E i \in DOMAIN wfs : wfs[i].form = lemma
                /\ (\A j \in DOMAIN produced : produced[j] # lemma) =>
                       /\ Len(wfs) = Len(produced) + 1
                       /\ wfs[1] = WordForm(lemma, <<>>, DefaultFeatures(pos))
                       /\ \A j \in DOMAIN produced : wfs[j + 1].form = produced[j]

C9_Witness ==
    /\ ret.op = "analyze"
    /\ ret.strategy = "SpaCyStrategy"
    /\ ~ret.raised
    /\ ret.lemmas = <<w_run>>
    /\ w_run \in DOMAIN ret.forms_map
    /\ ret.forms_map[w_run] = <<w_run, w_ran>>
    /\ ret.nlp[w_run].empty
    /\ ~ret.nlp[w_ran].empty
    /\ w_run \in DOMAIN ret.pos_map
    /\ ret.pos_map[w_run] = "VERB"
    /\ Len(ret.value[w_run]) = 2
    /\ ret.value[w_run][1] = WordForm(w_run, <<>>, [NoFeatures EXCEPT !.tense = "present"])
    /\ ret.value[w_run][2].form = w_ran

\* the strategy assigned most recently, the heuristic one if none was supplied
ActiveStrategy ==
    IF memo.value = NONE THEN "NLTKStrategy" ELSE memo.value

\* what analyze_tokens of the named strategy returns for the arguments of call
AnalyzeTokensOf(strategy, strategy_self, call) ==
    IF strategy = "SpaCyStrategy"
    THEN SpaCyStrategy_analyze_tokens(strategy_self, call.lemmas, call.pos_map,
                                      call.forms_map, call.nlp)
    ELSE NLTKStrategy_analyze_tokens(call.lemmas, call.pos_map, call.forms_map)

\* C10: the facade holds the strategy assigned most recently (the heuristic
\* one if none was supplied); every analyze step returns what that strategy's
\* analyze_tokens returns for the same arguments, failure included, and leaves
\* the strategy and the assignment note alone; every assignment step leaves
\* the last result and the tagger strategy's state alone.
C10_FacadeForwards ==
    /\ [](analyzer._strategy = ActiveStrategy)
    /\ [][/\ (ret' # ret =>
                /\ ret'.op = "analyze"
                /\ ret'.strategy = ActiveStrategy
                /\ ret'.raised = AnalyzeTokensOf(ActiveStrategy, spacy_strategy, ret').raised
                /\ ret'.value = AnalyzeTokensOf(ActiveStrategy, spacy_strategy, ret').value
                /\ analyzer' = analyzer
                /\ memo' = memo)
           /\ ((analyzer' # analyzer \/ memo' # memo) =>
                /\ ret' = ret
                /\ spacy_strategy' = spacy_strategy
                /\ analyzer'._strategy = memo'.value)]_vars

C10_Witness ==
    /\ memo.op = "set_strategy"
    /\ memo.value = "SpaCyStrategy"
    /\ analyzer._strategy = "SpaCyStrategy"
    /\ ret.op = "analyze"
    /\ ret.strategy = "SpaCyStrategy"
    /\ ret.raised

\* the table a category degrades to: the file's content when json.load
\* accepts it, the empty map when the file is missing or does not parse
DegradedTable(path) ==
    IF resource[path].exists /\ resource[path].parses
    THEN resource[path].data ELSE EmptyDict

\* the engine after a load that degrades every unusable category
DegradedEngine ==
    [_irregular_verbs |-> DegradedTable("irregular_verbs.json"),
     _irregular_nouns |-> DegradedTable("irregular_nouns.json"),
     _irregular_adjectives |-> DegradedTable("irregular_adjectives.json"),
     _loaded |-> TRUE]

\* what the call recorded in ret returns on the degraded engine
DegradedResult ==
    IF ret.op = "generate_form"
    THEN generate_form(DegradedEngine, ret.lexeme, ret.pos, ret.features).value
    ELSE IF ret.op = "generate_all_forms"
    THEN generate_all_forms(DegradedEngine, ret.lexeme, ret.pos).value
    ELSE is_irregular(DegradedEngine, ret.lexeme, ret.pos).value

\* C11: the first call never raises: a category whose file is missing or
\* does not parse becomes the empty map, the other categories hold their
\* file's content, the load completes, and the call returns what the rules
\* give over those tables.
C11_LoadNeverRaises ==
    ret.op \in {"generate_form", "generate_all_forms", "is_irregular"} =>
        /\ ~ret.raised
        /\ rule_engine = DegradedEngine
        /\ ret.value = DegradedResult

\* C12 as stated: with the tagger resource unavailable the construction of
\* the tagger strategy raises, no later analyze call does, and the heuristic
\* strategy keeps answering through the facade.
C12_ConstructionFails ==
    ~spacy_model =>
        /\ ret.op = "SpaCyStrategy" => ret.raised
        /\ ret.op = "analyze" => ~ret.raised

\* C12 amended: constructing the tagger strategy never raises and loads
\* nothing; with the resource unavailable the failure is raised by every
\* _load_model call, the one at the start of each analyze_tokens included,
\* and leaves the strategy without a model; the heuristic strategy, through
\* the same facade, never raises and returns its lists.
C12_LoadFailsLazily ==
    /\ ret.op = "SpaCyStrategy" => (~ret.raised /\ spacy_strategy._nlp = NONE)
    /\ ~spacy_model =>
        /\ spacy_strategy # NoStrategy => spacy_strategy._nlp = NONE
        /\ ret.op = "_load_model" => ret.raised
        /\ (ret.op = "analyze" /\ ret.strategy = "SpaCyStrategy") => ret.raised
        /\ (ret.op = "analyze" /\ ret.strategy = "NLTKStrategy") =>
               /\ ~ret.raised
               /\ ret.value =
                      NLTKStrategy_analyze_tokens(ret.lemmas, ret.pos_map,
                                                  ret.forms_map).value

\* the tagger strategy was constructed without a failure, assigned to the
\* facade, and its analyze call raised for want of the model
C12_Witness ==
    /\ ~spacy_model
    /\ spacy_strategy = [_nlp |-> NONE]
    /\ memo.op = "set_strategy"
    /\ memo.value = "SpaCyStrategy"
    /\ ret.op = "analyze"
    /\ ret.strategy = "SpaCyStrategy"
    /\ ret.raised

\* the engine whose three tables hold the resource's content
LoadedEngine ==
    [_irregular_verbs |-> TableIn("irregular_verbs.json"),
     _irregular_nouns |-> TableIn("irregular_nouns.json"),
     _irregular_adjectives |-> TableIn("irregular_adjectives.json"),
     _loaded |-> TRUE]

\* what a thread's call returns when computed from the loaded tables
LoadedResult(call) ==
    IF call.method = "generate_form"
    THEN generate_form(LoadedEngine, call.lexeme, call.pos, call.features).value
    ELSE IF call.method = "generate_all_forms"
    THEN generate_all_forms(LoadedEngine, call.lexeme, call.pos).value
    ELSE is_irregular(LoadedEngine, call.lexeme, call.pos).value

\* C13: under every interleaving of two first calls on a shared engine, a
\* thread that is past _ensure_loaded finds the three tables equal to the
\* resource's content whenever it consults them, every finished call returned
\* what the loaded tables give, and when both are finished the engine holds
\* the resource's content.
C13_ConcurrentFirstCalls ==
    threads # NoThreads =>
        \A t \in Threads :
            /\ threads[t].pc \in {"compute", "done"} => rule_engine = LoadedEngine
            /\ threads[t].pc = "compute" =>
                   \A i \in DOMAIN threads[t].forms :
                       threads[t].forms[i] = LoadedResult(threads[t].call)[i]
            /\ threads[t].pc = "done" =>
                   threads[t].value = LoadedResult(threads[t].call)

\* both threads found _loaded false and loaded the tables themselves, and
\* both calls finished with the irregular forms
C13_Witness ==
    /\ threads # NoThreads
    /\ \A t \in Threads : threads[t].fresh /\ threads[t].pc = "done"
    /\ threads["gui"].call.lexeme = w_run
    /\ threads["gui"].value.form = w_ran
    /\ threads["worker"].call.method = "generate_all_forms"
    /\ threads["worker"].call.pos = "VERB"
    /\ threads["worker"].value[4].form = w_ran

\* C14: the first call on an engine reads the three resource files and
\* leaves the tables holding their content; every later call reads no
\* resource file and leaves the tables and the flag as they are.
C14_LoadedOnce ==
    [][/\ (ret.op = "none" /\ ret'.op # "none") =>
              /\ ret'.reads = <<"irregular_verbs.json", "irregular_nouns.json",
                                "irregular_adjectives.json">>
              /\ rule_engine' = LoadedEngine
       /\ ret.op # "none" =>
              /\ rule_engine' = rule_engine
              /\ (ret'.op # ret.op \/ ret' # ret) => ret'.reads = <<>>]_vars

\* a later generate_form call that read no file and used the loaded table
C14_Witness ==
    /\ ret.op = "generate_form"
    /\ ~ret.fresh
    /\ ret.reads = <<>>
    /\ ret.lexeme = w_run
    /\ ret.value.form = w_ran
    /\ rule_engine = LoadedEngine

\* C15: to_dict(f) has exactly the keys of the fields of f that are present,
\* each with the field's value; from_dict(to_dict(f)) is f, also when keys
\* that are not feature fields are added; and f = g exactly when
\* to_dict(f) = to_dict(g).
C15_FeatureRoundTrip ==
    ret.op = "to_dict" =>
        /\ DOMAIN ret.f_dict = {name \in DOMAIN ret.f : ret.f[name] # NONE}
        /\ \A name \in DOMAIN ret.f_dict : ret.f_dict[name] = ret.f[name]
        /\ ret.f_back = ret.f
        /\ ret.f_back_unknown = ret.f
        /\ (ret.f = ret.g) <=> (ret.f_dict = ret.g_dict)

\* two feature sets that differ only in a field one of them lacks
C15_Witness ==
    /\ ret.op = "to_dict"
    /\ ret.f = [NoFeatures EXCEPT !.tense = "past"]
    /\ ret.g = [NoFeatures EXCEPT !.tense = "past", !.voice = "passive"]
    /\ DOMAIN ret.f_dict = {"tense"}
    /\ ret.f_dict # ret.g_dict
    /\ ret.f_back = ret.f

\* ending_diff: "" when nothing of the form is left after its longest common
\* prefix with the lemma, "-" and the rest otherwise
EndingDiff(lemma, form) ==
    IF RemainderOf(lemma, form) = <<>> THEN <<>>
    ELSE <<"-">> \o RemainderOf(lemma, form)

\* C16: every WordForm returned by generate_form, generate_all_forms and
\* analyze (under either strategy) carries ending_diff(lemma, form) as its
\* ending, for the lemma it was produced for.
C16_EndingRecomputed ==
    /\ ret.op = "generate_form" =>
           ret.value.ending = EndingDiff(ret.lexeme, ret.value.form)
    /\ ret.op = "generate_all_forms" =>
           \A i \in DOMAIN ret.value :
               ret.value[i].ending = EndingDiff(ret.lexeme, ret.value[i].form)
    /\ (ret.op = "analyze" /\ ~ret.raised) =>
           \A lemma \in DOMAIN ret.value :
               \A i \in DOMAIN ret.value[lemma] :
                   ret.value[lemma][i].ending =
                       EndingDiff(lemma, ret.value[lemma][i].form)

\* a periphrastic form, which shares no prefix with its lemma
C16_Witness ==
    /\ ret.op = "generate_form"
    /\ ret.lexeme = w_beautiful
    /\ ret.pos = "ADJ"
    /\ ret.features.degree = "superlative"
    /\ ret.value.form = <<"m","o","s","t"," ">> \o w_beautiful
    /\ ret.value.ending = <<"-","m","o","s","t"," ">> \o w_beautiful

\* the paradigm C17 lists for a part of speech, <<>> for the others
Paradigm(pos) ==
    IF pos = "VERB"
    THEN << [NoFeatures EXCEPT !.tense = "infinitive"],
            [NoFeatures EXCEPT !.tense = "present"],
            [NoFeatures EXCEPT !.tense = "present", !.person = "3rd",
                               !.number = "singular"],
            [NoFeatures EXCEPT !.tense = "past"],
            [NoFeatures EXCEPT !.tense = "past_participle"],
            [NoFeatures EXCEPT !.tense = "present_participle",
                               !.aspect = "progressive"] >>
    ELSE IF pos = "NOUN"
    THEN << [NoFeatures EXCEPT !.number = "singular"],
            [NoFeatures EXCEPT !.number = "plural"],
            [NoFeatures EXCEPT !.case = "possessive"] >>
    ELSE IF pos \in {"ADJ", "ADV"}
    THEN << [NoFeatures EXCEPT !.degree = "positive"],
            [NoFeatures EXCEPT !.degree = "comparative"],
            [NoFeatures EXCEPT !.degree = "superlative"] >>
    ELSE <<>>

\* C17: generate_all_forms returns, in the listed order, generate_form of
\* each specification of the POS's paradigm (6 for VERB, 3 for NOUN,
\* ADJECTIVE and ADVERB), a single entry (lemma, "", no features) for any
\* other POS, and its first element always has form == lemma.
C17_Paradigm ==
    ret.op = "generate_all_forms" =>
        /\ ~ret.raised
        /\ Len(ret.value) =
               (IF ret.pos = "VERB" THEN 6
                ELSE IF ret.pos \in {"NOUN", "ADJ", "ADV"} THEN 3 ELSE 1)
        /\ \A i \in DOMAIN Paradigm(ret.pos) :
               ret.value[i] =
                   generate_form(LoadedEngine, ret.lexeme, ret.pos,
                                 Paradigm(ret.pos)[i]).value
        /\ Paradigm(ret.pos) = <<>> =>
               ret.value = << WordForm(ret.lexeme, <<>>, NoFeatures) >>
        /\ ret.value[1].form = ret.lexeme

\* the six forms of an irregular verb
C17_Witness ==
    /\ ret.op = "generate_all_forms"
    /\ ret.lexeme = w_go
    /\ ret.pos = "VERB"
    /\ Len(ret.value) = 6
    /\ ret.value[1].form = w_go
    /\ ret.value[3].form = w_goes
    /\ ret.value[4].form = w_went
    /\ ret.value[5].form = w_gone
    /\ ret.value[6].features.aspect = "progressive"

\* C18 as stated: for VERB with tense=past_participle the form is the past
\* slot of the lowercased lemma when the table has one, else the regular -ed
\* form, so that it equals the form for tense=past.
C18_ParticipleFromPastSlot ==
    (/\ ret.op = "generate_form"
     /\ ret.pos = "VERB"
     /\ ret.features.tense = "past_participle") =>
        /\ ret.value.form =
               IF SlotOf("irregular_verbs.json", ret.lexeme, "past") # <<>>
               THEN SlotOf("irregular_verbs.json", ret.lexeme, "past")
               ELSE RegularEd(ret.lexeme)
        /\ ret.value.form =
               generate_form(LoadedEngine, ret.lexeme, "VERB",
                             [ret.features EXCEPT !.tense = "past"]).value.form

\* C18 amended: for VERB with tense=past_participle the form is the
\* past_participle slot of the lowercased lemma when the table has one, else
\* the regular -ed form; it equals the form for tense=past when the lemma has
\* neither slot or the same form in both.
C18_ParticipleFromOwnSlot ==
    (/\ ret.op = "generate_form"
     /\ ret.pos = "VERB"
     /\ ret.features.tense = "past_participle") =>
        /\ ret.value.form =
               IF SlotOf("irregular_verbs.json", ret.lexeme, "past_participle") # <<>>
               THEN SlotOf("irregular_verbs.json", ret.lexeme, "past_participle")
               ELSE RegularEd(ret.lexeme)
        /\ (SlotOf("irregular_verbs.json", ret.lexeme, "past_participle") =
            SlotOf("irregular_verbs.json", ret.lexeme, "past")) =>
               ret.value.form =
                   generate_form(LoadedEngine, ret.lexeme, "VERB",
                                 [ret.features EXCEPT !.tense = "past"]).value.form

\* go, whose past is "went", has the past participle "gone"
C18_Witness ==
    /\ ret.op = "generate_form"
    /\ ret.pos = "VERB"
    /\ ret.features.tense = "past_participle"
    /\ ret.lexeme = w_go
    /\ SlotOf("irregular_verbs.json", w_go, "past") = w_went
    /\ ret.value.form = w_gone

\* the regular -ing form as C19 words it
RegularIng(lemma) ==
    IF Len(lemma) >= 2 /\ LastOf(lemma) = "e" /\ lemma[Len(lemma) - 1] = "i"
    THEN SubSeq(lemma, 1, Len(lemma) - 2) \o <<"y","i","n","g">>
    ELSE IF /\ lemma # <<>>
            /\ LastOf(lemma) = "e"
            /\ ~(Len(lemma) >= 2 /\ lemma[Len(lemma) - 1] = "e")
    THEN SubSeq(lemma, 1, Len(lemma) - 1) \o <<"i","n","g">>
    ELSE IF double_final_consonant(lemma) # lemma
    THEN double_final_consonant(lemma) \o <<"i","n","g">>
    ELSE lemma \o <<"i","n","g">>

\* C19: for VERB with tense=present_participle the form is the
\* present_participle slot of the lowercased lemma when the table has one,
\* else the regular form: ie -> ying, a final e dropped unless the lemma ends
\* in ee, the doubled consonant when doubling applies, else lemma + ing; the
\* regular form ends in "ing" and is not the lemma.
C19_PresentParticiple ==
    (/\ ret.op = "generate_form"
     /\ ret.pos = "VERB"
     /\ ret.features.tense = "present_participle") =>
        IF SlotOf("irregular_verbs.json", ret.lexeme, "present_participle") # <<>>
        THEN ret.value.form =
                 SlotOf("irregular_verbs.json", ret.lexeme, "present_participle")
        ELSE /\ ret.value.form = RegularIng(ret.lexeme)
             /\ Len(ret.value.form) >= 3
             /\ SubSeq(ret.value.form, Len(ret.value.form) - 2,
                       Len(ret.value.form)) = <<"i","n","g">>
             /\ ret.value.form # ret.lexeme

\* free keeps both e's
C19_Witness ==
    /\ ret.op = "generate_form"
    /\ ret.pos = "VERB"
    /\ ret.features.tense = "present_participle"
    /\ ret.lexeme = w_free
    /\ ret.value.form = <<"f","r","e","e","i","n","g">>

\* the regular third person singular as C20 words it
RegularThirdPerson(lemma) ==
    IF Sibilant(lemma) THEN lemma \o <<"e","s">>
    ELSE IF ConsonantY(lemma)
    THEN SubSeq(lemma, 1, Len(lemma) - 1) \o <<"i","e","s">>
    ELSE lemma \o <<"s">>

\* C20: for VERB with tense=present, person=3rd and number=singular the form
\* is the third_person slot when the table has one, else +es after a
\* sibilant, y -> ies after a consonant, else +s; with tense=present and
\* another person or number, tense=infinitive, or no tense, it is the lemma.
C20_ThirdPerson ==
    (/\ ret.op = "generate_form"
     /\ ret.pos = "VERB"
     /\ ret.features.tense \in {"present", "infinitive", NONE}) =>
        IF /\ ret.features.tense = "present"
           /\ ret.features.person = "3rd"
           /\ ret.features.number = "singular"
        THEN ret.value.form =
                 IF SlotOf("irregular_verbs.json", ret.lexeme, "third_person") # <<>>
                 THEN SlotOf("irregular_verbs.json", ret.lexeme, "third_person")
                 ELSE RegularThirdPerson(ret.lexeme)
        ELSE ret.value.form = ret.lexeme

\* watch takes "es"
C20_Witness ==
    /\ ret.op = "generate_form"
    /\ ret.pos = "VERB"
    /\ ret.features.tense = "present"
    /\ ret.features.person = "3rd"
    /\ ret.features.number = "singular"
    /\ ret.lexeme = w_watch
    /\ ret.value.form = <<"w","a","t","c","h","e","s">>

\* the periphrastic form of an adverb
Periphrastic(lemma, degree) ==
    IF degree = "comparative" THEN <<"m","o","r","e"," ">> \o lemma
    ELSE IF degree = "superlative" THEN <<"m","o","s","t"," ">> \o lemma
    ELSE lemma

\* C21: for ADVERB, generate_form gives "more " + lemma for
\* degree=comparative, "most " + lemma for degree=superlative and the lemma
\* for any other feature set, whatever the irregular tables contain, even
\* when the lemma is a key of the adjective table.
C21_AdverbPeriphrastic ==
    (ret.op = "generate_form" /\ ret.pos = "ADV") =>
        /\ ~ret.raised
        /\ ret.value.form = Periphrastic(ret.lexeme, ret.features.degree)

C21_Witness ==
    /\ ret.op = "generate_form"
    /\ ret.pos = "ADV"
    /\ ret.lexeme = w_good
    /\ str_lower(ret.lexeme) \in DOMAIN TableIn("irregular_adjectives.json")
    /\ ret.features.degree = "comparative"
    /\ ret.value.form = <<"m","o","r","e"," ","g","o","o","d">>

\* the stem ends in consonant-vowel-consonant
EndsInCVC(stem) ==
    /\ Len(stem) >= 3
    /\ stem[Len(stem)] \in CONSONANTS
    /\ stem[Len(stem) - 1] \in VOWELS
    /\ stem[Len(stem) - 2] \in CONSONANTS

\* C22: for every stem of lowercase letters, of any length,
\* double_final_consonant returns stem + its last letter when the stem ends
\* in consonant-vowel-consonant and the last consonant is not w, x or y, and
\* the stem unchanged for every other stem.
C22_DoublesOnlyCVC ==
    ret.op = "double_final_consonant" =>
        ret.value = IF EndsInCVC(ret.stem) /\ LastOf(ret.stem) \notin {"w", "x", "y"}
                    THEN Append(ret.stem, LastOf(ret.stem))
                    ELSE ret.stem

\* a stem of one letter, that letter being w, comes back doubled
C22_SingleLetterDoubled ==
    /\ ret.op = "double_final_consonant"
    /\ ret.stem = <<"w">>
    /\ ret.value = <<"w","w">>

\* the feature set with the given fields set and every other field absent
Only(fields) ==
    [k \in FeatureFields |-> IF k \in DOMAIN fields THEN fields[k] ELSE NONE]

\* the decision table of the heuristic classifier
DecisionTable(lemma, form, pos) ==
    IF form = lemma
    THEN CASE pos = "VERB" -> Only([tense |-> "present"])
           [] pos = "NOUN" -> Only([number |-> "singular"])
           [] pos \in {"ADJ", "ADV"} -> Only([degree |-> "positive"])
           [] OTHER -> NoFeatures
    ELSE CASE pos = "VERB" ->
                 IF endswith(form, <<"i","n","g">>)
                 THEN Only([tense |-> "present_participle", aspect |-> "progressive"])
                 ELSE IF endswith(form, <<"e","d">>) THEN Only([tense |-> "past"])
                 ELSE IF endswith(form, <<"e","n">>)
                 THEN Only([tense |-> "past_participle"])
                 ELSE IF endswith(form, <<"s">>)
                 THEN Only([tense |-> "present", person |-> "3rd",
                            number |-> "singular"])
                 ELSE Only([tense |-> "present"])
           [] pos = "NOUN" ->
                 IF endswith(form, <<"s">>) THEN Only([number |-> "plural"])
                 ELSE IF contains(form, <<"'","s">>) \/ contains(form, <<"s","'">>)
                 THEN Only([case |-> "possessive"])
                 ELSE Only([number |-> "singular"])
           [] pos \in {"ADJ", "ADV"} ->
                 IF endswith(form, <<"e","s","t">>)
                    \/ startswith(form, <<"m","o","s","t"," ">>)
                 THEN Only([degree |-> "superlative"])
                 ELSE IF endswith(form, <<"e","r">>)
                         \/ startswith(form, <<"m","o","r","e"," ">>)
                 THEN Only([degree |-> "comparative"])
                 ELSE Only([degree |-> "positive"])
           [] OTHER -> NoFeatures

\* C23: the heuristic classifier assigns to every (lemma, observed form,
\* POS) the feature set of the decision table: the POS default when
\* form == lemma whatever the suffix, else the first matching suffix or
\* prefix test of the POS, and empty features for any other POS.
C23_DecisionTable ==
    ret.op = "_infer_features" =>
        ret.value = DecisionTable(ret.lemma, ret.form, ret.pos)

C23_Witness ==
    /\ ret.op = "_infer_features"
    /\ ret.pos = "VERB"
    /\ ret.form = ret.lemma
    /\ endswith(ret.form, <<"e","d">>)
    /\ ret.value = [NoFeatures EXCEPT !.tense = "present"]

\* the canonical field value of a tag: `canonical` maps the tag values that
\* are understood, and a missing tag or any other value gives an absent field
Canonical(morph, key, canonical) ==
    IF key \in DOMAIN morph /\ morph[key] \in DOMAIN canonical
    THEN canonical[morph[key]]
    ELSE NONE

\* C24: the external-tagger variant maps every tag dictionary into the
\* canonical vocabulary only: tense past/present from Past/Pres, number
\* singular/plural, person 1st/2nd/3rd, degree positive/comparative/
\* superlative, aspect progressive only for Prog, voice passive only for
\* Pass; a missing tag or any other value leaves the field absent, case is
\* always absent and no field holds a value outside its enumeration.
C24_CanonicalVocabulary ==
    ret.op = "_morph_to_features" =>
        /\ ret.value.tense =
               Canonical(ret.morph, "Tense", [Past |-> "past", Pres |-> "present"])
        /\ ret.value.number =
               Canonical(ret.morph, "Number", [Sing |-> "singular", Plur |-> "plural"])
        /\ ret.value.person =
               Canonical(ret.morph, "Person",
                         ("1" :> "1st") @@ ("2" :> "2nd") @@ ("3" :> "3rd"))
        /\ ret.value.degree =
               Canonical(ret.morph, "Degree",
                         [Pos |-> "positive", Cmp |-> "comparative",
                          Sup |-> "superlative"])
        /\ ret.value.aspect = Canonical(ret.morph, "Aspect", [Prog |-> "progressive"])
        /\ ret.value.voice = Canonical(ret.morph, "Voice", [Pass |-> "passive"])
        /\ ret.value.case = NONE
        /\ ret.value.tense \in {NONE, "past", "present"}
        /\ ret.value.number \in {NONE, "singular", "plural"}
        /\ ret.value.person \in {NONE, "1st", "2nd", "3rd"}
        /\ ret.value.degree \in {NONE, "positive", "comparative", "superlative"}
        /\ ret.value.aspect \in {NONE, "progressive"}
        /\ ret.value.voice \in {NONE, "passive"}

C24_Witness ==
    /\ ret.op = "_morph_to_features"
    /\ ret.morph = [Tense |-> "Fut", Number |-> "Plur", Aspect |-> "Prog",
                    Voice |-> "Act", Case |-> "Gen"]
    /\ ret.value = MorphologicalFeature(NONE, "plural", NONE, NONE, NONE,
                                        "progressive", NONE)

\* C25: at startup, when the configured strategy is the external tagger and
\* its model cannot be loaded, the facade is built with the heuristic
\* strategy and startup continues; the facade holds an external-tagger
\* strategy only if that strategy's model is already loaded, and no later
\* analyze call loads the model or fails for want of it.
C25_StartupFallback ==
    memo.op = "main" =>
        /\ (memo.strategy = "spacy" /\ ~spacy_model) =>
               analyzer._strategy = "NLTKStrategy"
        /\ analyzer._strategy = "SpaCyStrategy" =>
               /\ memo.strategy = "spacy"
               /\ spacy_model
               /\ spacy_strategy._nlp # NONE
               /\ _load_model(spacy_strategy).self = spacy_strategy
        /\ ret.op = "analyze" => ~ret.raised

C25_Witness ==
    /\ memo.op = "main"
    /\ memo.strategy = "spacy"
    /\ ~spacy_model
    /\ analyzer._strategy = "NLTKStrategy"
    /\ ret.op = "analyze"
    /\ ret.strategy = "NLTKStrategy"
    /\ ~ret.raised

\* generate_all_forms(lexeme, pos) has returned for a lemma that has no
\* entry in the irregular table `path`
AllFormsOfRegular(pos, path) ==
    /\ ret.op = "generate_all_forms"
    /\ ret.pos = pos
    /\ ~ret.raised
    /\ str_lower(ret.lexeme) \notin DOMAIN TableIn(path)

\* what the heuristic inferencer answers for a generated entry
Inferred(wf) == _infer_features(ret.lexeme, wf.form, ret.pos)

\* C26 as stated: for every VERB lemma with no irregular entry, each entry
\* of generate_all_forms whose form differs from the lemma is classified by
\* the heuristic inferencer with exactly the feature set it was generated
\* from.
C26_VerbsAgree ==
    AllFormsOfRegular("VERB", "irregular_verbs.json") =>
        \A i \in DOMAIN ret.value :
            ret.value[i].form # ret.lexeme =>
                Inferred(ret.value[i]) = ret.value[i].features

\* C26 amended: the 3rd-singular present, the past and the present
\* participle are classified with the feature set they were generated from;
\* the past participle of a regular verb is the same string as its past and
\* is classified as {past}.
C26_VerbsAgreeButParticiple ==
    AllFormsOfRegular("VERB", "irregular_verbs.json") =>
        \A i \in DOMAIN ret.value :
            ret.value[i].form # ret.lexeme =>
                Inferred(ret.value[i]) =
                    IF ret.value[i].features.tense = "past_participle"
                    THEN [NoFeatures EXCEPT !.tense = "past"]
                    ELSE ret.value[i].features

C26_Witness ==
    /\ AllFormsOfRegular("VERB", "irregular_verbs.json")
    /\ ret.lexeme = w_hop
    /\ ret.value[4].form = <<"h","o","p","p","e","d">>
    /\ ret.value[5].form = ret.value[4].form
    /\ ret.value[5].features = [NoFeatures EXCEPT !.tense = "past_participle"]
    /\ Inferred(ret.value[5]) = [NoFeatures EXCEPT !.tense = "past"]
    /\ Inferred(ret.value[6]) = ret.value[6].features

\* C27: for every NOUN, ADJECTIVE or ADVERB lemma with no irregular entry,
\* each entry of generate_all_forms whose form differs from the lemma
\* (plural and possessive; comparative and superlative) is classified by the
\* heuristic inferencer with exactly the feature set it was generated from.
C27_NominalsAgree ==
    \/ AllFormsOfRegular("NOUN", "irregular_nouns.json")
    \/ AllFormsOfRegular("ADJ", "irregular_adjectives.json")
    \/ (ret.op = "generate_all_forms" /\ ret.pos = "ADV" /\ ~ret.raised)
    => \A i \in DOMAIN ret.value :
           ret.value[i].form # ret.lexeme =>
               Inferred(ret.value[i]) = ret.value[i].features

\* the possessive of the noun "box" is classified as a plural
C27_PossessiveAsPlural ==
    /\ AllFormsOfRegular("NOUN", "irregular_nouns.json")
    /\ ret.lexeme = w_box
    /\ ret.value[3].form = <<"b","o","x","'","s">>
    /\ ret.value[3].features = [NoFeatures EXCEPT !.case = "possessive"]
    /\ Inferred(ret.value[3]) = [NoFeatures EXCEPT !.number = "plural"]

\* C28: undo called immediately after add_entry, remove_entry or
\* update_entry restores the dictionary's entries (the lexemes and each
\* entry's frequency and word forms) to what they were just before that
\* operation, for every prior dictionary, add_entry of a lexeme that is
\* already present included.
C28_UndoRestores ==
    ret.op = "undo" => manager._dictionary._entries = memo._entries

\* add_entry of a lexeme that was present, then undo: the entry is gone
C28_MergedEntryLost ==
    /\ ret.op = "undo"
    /\ ret.after.op = "add_entry"
    /\ str_lower(ret.after.entry.lexeme) \in DOMAIN memo._entries
    /\ str_lower(ret.after.entry.lexeme) \notin DOMAIN manager._dictionary._entries

\* undo after remove_entry and after update_entry, and after add_entry of a
\* lexeme that was absent, restores the entries
C28_OtherUndosRestore ==
    (/\ ret.op = "undo"
     /\ ~(/\ ret.after.op = "add_entry"
          /\ str_lower(ret.after.entry.lexeme) \in DOMAIN memo._entries))
    => manager._dictionary._entries = memo._entries

\* C29: once the user has cancelled a running analysis, after the cancel
\* handler has run no bulk_add for that run takes place, whatever the order
\* in which the worker's finished signal and the cancel are delivered.
C29_NoBulkAddAfterCancel ==
    ret.op = "bulk_add" => ~ret.cancelled

\* the entries of a cancelled run are in the dictionary
C29_CancelledRunAdded ==
    /\ ret.op = "bulk_add"
    /\ ret.run \in memo.runs
    /\ w_run \in DOMAIN manager._dictionary._entries

\* the analyses whose thread is running
Running == {id \in DOMAIN qt.threads : isRunning(id)}

\* C30: at most one document analysis runs at any time: a load_document
\* call made while the held thread is running starts nothing, and a new
\* analysis starts only after the previous thread has finished and been
\* cleaned up.
C30_OneAnalysis ==
    /\ Cardinality(Running) <= 1
    /\ (ret.op = "load_document" /\ ret.started # NONE) => ret.held = NONE

\* two analysis threads are running at once
C30_TwoRunning == Cardinality(Running) = 2

====
